---- MODULE Spec2Model ----
(***************************************************************************)
(* The 4x4x4 four-in-a-row player: the board, the catalog of winning       *)
(* lines with win/draw detection, the heuristic evaluators and the five    *)
(* search engines (AlphaBetaAI, AlphaBetaHeuristicAI, MinimaxAI,           *)
(* MinimaxHeuristicAI, MinimaxHeuristicReductionAI).                       *)
(*                                                                         *)
(* game/board.py and config.py are not part of the sources at hand: the    *)
(* Board operations follow section 4.1 of the specification, coordinates   *)
(* in canonical (x, y, z) order, and the cell values follow                *)
(* gui/board_display.py ("0=empty, 1=human, 2=AI").                        *)
(***************************************************************************)
EXTENDS Integers, Sequences, FiniteSets, TLC

VARIABLES
    grid,               \* Board.grid: cell (x, y, z) -> cell value
    winning_lines,      \* GameRules.winning_lines
    last_winning_line,  \* GameRules.last_winning_line (<<>> is None)
    op,                 \* the operation that ran last
    ret,                \* what check_winner returned last, PyNone after any
                        \* other operation
    ai,                 \* the engine object: its attributes
    call,               \* the last get_best_move call: its arguments, what
                        \* it handed back and what it did on the way
    search,             \* the last direct calls of the recursive searches
                        \* _alphabeta and _minimax: arguments and scores
    chosen,             \* the depths get_best_move chose last, and the
                        \* numbers of available moves it chose them for
    gui,                \* MainWindow: its flags, its worker threads and the
                        \* callbacks queued for the main thread
    helper,             \* the last direct call of a helper of an engine or
                        \* of the evaluator: its arguments and its result
    recorded            \* last_winning_line as the last check_winner call
                        \* of GameRules found it

vars == <<grid, winning_lines, last_winning_line, op, ret, ai, call, search, chosen, gui, helper, recorded>>

-----------------------------------------------------------------------------
(* config.py *)

BOARD_SIZE == 4
EMPTY_CELL == 0
PLAYER_HUMAN == 1
PLAYER_AI == 2

\* Python's None where an integer may stand (check_winner's "game continues").
PyNone == 99

Coords == 0 .. (BOARD_SIZE - 1)
Cells == Coords \X Coords \X Coords
Players == {PLAYER_HUMAN, PLAYER_AI}

-----------------------------------------------------------------------------
(* Bounds of the explored boards *)

\* How many cells the caller of the Board may play on (the first ones of PlayOrder).
MaxPlayCells == 5

\* The engines are handed boards with 0 .. MaxHoles empty cells, taken among
\* the first PoolSize cells of HoleOrder.
MaxHoles == 3
PoolSize == 5

\* The small capacity some engine objects are given in place of the 100000
\* entries of __init__, so that the table fills up on these boards.
SmallCache == 2

\* The remaining depths 0 .. MaxSearchDepth the recursive searches are called
\* with directly.
MaxSearchDepth == 3

\* The human clicks on the first MaxClickCells cells of PlayOrder, no more
\* once move_count has reached MaxMoveCount, and at most MaxWorkers AI moves
\* are in flight at a time (worker threads alive and callbacks queued).
MaxClickCells == 2
MaxMoveCount == 3
MaxWorkers == 1

\* _apply_reductions is given lists of 0 .. MaxScored scored moves.
MaxScored == 9

\* The node budget some MinimaxHeuristicAI and MinimaxHeuristicReductionAI
\* objects are given in place of the 30000 of __init__ ("ai.max_nodes = 2"),
\* so that a search on these boards exceeds it.
SmallBudget == 2

\* The engines whose choice of depth is explored are configured with
\* max_depth 1 .. MaxConfiguredDepth.
MaxConfiguredDepth == 6

\* How many cells are empty on the boards the cache is compared on
CompareHoles == 5

-----------------------------------------------------------------------------
(* game/rules.py: the catalog of winning lines *)

Rows ==
    [k \in 1 .. BOARD_SIZE * BOARD_SIZE |->
        LET y == (k - 1) \div BOARD_SIZE
            z == (k - 1) % BOARD_SIZE
        IN  [i \in 1 .. BOARD_SIZE |-> <<i - 1, y, z>>]]

Columns ==
    [k \in 1 .. BOARD_SIZE * BOARD_SIZE |->
        LET x == (k - 1) \div BOARD_SIZE
            z == (k - 1) % BOARD_SIZE
        IN  [i \in 1 .. BOARD_SIZE |-> <<x, i - 1, z>>]]

Pillars ==
    [k \in 1 .. BOARD_SIZE * BOARD_SIZE |->
        LET x == (k - 1) \div BOARD_SIZE
            y == (k - 1) % BOARD_SIZE
        IN  [i \in 1 .. BOARD_SIZE |-> <<x, y, i - 1>>]]

\* For each z the main diagonal, then the anti-diagonal.
DiagonalsXY ==
    [k \in 1 .. 2 * BOARD_SIZE |->
        LET z == (k - 1) \div 2
        IN  IF (k - 1) % 2 = 0
            THEN [i \in 1 .. BOARD_SIZE |-> <<i - 1, i - 1, z>>]
            ELSE [i \in 1 .. BOARD_SIZE |-> <<i - 1, BOARD_SIZE - 1 - (i - 1), z>>]]

DiagonalsXZ ==
    [k \in 1 .. 2 * BOARD_SIZE |->
        LET y == (k - 1) \div 2
        IN  IF (k - 1) % 2 = 0
            THEN [i \in 1 .. BOARD_SIZE |-> <<i - 1, y, i - 1>>]
            ELSE [i \in 1 .. BOARD_SIZE |-> <<i - 1, y, BOARD_SIZE - 1 - (i - 1)>>]]

DiagonalsYZ ==
    [k \in 1 .. 2 * BOARD_SIZE |->
        LET x == (k - 1) \div 2
        IN  IF (k - 1) % 2 = 0
            THEN [i \in 1 .. BOARD_SIZE |-> <<x, i - 1, i - 1>>]
            ELSE [i \in 1 .. BOARD_SIZE |-> <<x, i - 1, BOARD_SIZE - 1 - (i - 1)>>]]

\* A variant of the space diagonals whose fourth line repeats the first one
\* backwards.
SpaceDiagonalsRepeated ==
    << [i \in 1 .. BOARD_SIZE |-> <<i - 1, i - 1, i - 1>>],
       [i \in 1 .. BOARD_SIZE |-> <<i - 1, i - 1, BOARD_SIZE - 1 - (i - 1)>>],
       [i \in 1 .. BOARD_SIZE |-> <<i - 1, BOARD_SIZE - 1 - (i - 1), i - 1>>],
       [i \in 1 .. BOARD_SIZE |->
            <<BOARD_SIZE - 1 - (i - 1), BOARD_SIZE - 1 - (i - 1), BOARD_SIZE - 1 - (i - 1)>>] >>

SpaceDiagonals ==
    << [i \in 1 .. BOARD_SIZE |-> <<i - 1, i - 1, i - 1>>],
       [i \in 1 .. BOARD_SIZE |-> <<i - 1, i - 1, BOARD_SIZE - 1 - (i - 1)>>],
       [i \in 1 .. BOARD_SIZE |-> <<i - 1, BOARD_SIZE - 1 - (i - 1), i - 1>>],
       [i \in 1 .. BOARD_SIZE |-> <<BOARD_SIZE - 1 - (i - 1), i - 1, i - 1>>] >>

\* A variant of the catalog that starts with the space diagonals.
SpaceDiagonalsFirst ==
    SpaceDiagonals \o Rows \o Columns \o Pillars \o DiagonalsXY \o DiagonalsXZ
         \o DiagonalsYZ

_generate_all_winning_lines ==
    Rows \o Columns \o Pillars \o DiagonalsXY \o DiagonalsXZ \o DiagonalsYZ
         \o SpaceDiagonals

-----------------------------------------------------------------------------
(* game/board.py, after section 4.1 of the specification *)

EmptyBoard == [c \in Cells |-> EMPTY_CELL]

InRange(x, y, z) == x \in Coords /\ y \in Coords /\ z \in Coords

\* get_cell(x, y, z)
get_cell(g, c) == g[c]

\* make_move succeeds on an in-range EMPTY cell, and fails otherwise.
make_move_ok(g, x, y, z) == InRange(x, y, z) /\ g[<<x, y, z>>] = EMPTY_CELL

make_move(g, x, y, z, player) ==
    IF make_move_ok(g, x, y, z) THEN [g EXCEPT ![<<x, y, z>>] = player] ELSE g

\* undo_move sets the cell back to EMPTY; on an EMPTY cell it is InvalidMove.
undo_move_ok(g, x, y, z) == InRange(x, y, z) /\ g[<<x, y, z>>] # EMPTY_CELL

undo_move(g, x, y, z) ==
    IF undo_move_ok(g, x, y, z) THEN [g EXCEPT ![<<x, y, z>>] = EMPTY_CELL] ELSE g

\* The canonical iteration order of the cells: x, then y, then z.
CellAt(k) ==
    << (k - 1) \div (BOARD_SIZE * BOARD_SIZE),
       ((k - 1) \div BOARD_SIZE) % BOARD_SIZE,
       (k - 1) % BOARD_SIZE >>

AllCells == [k \in 1 .. BOARD_SIZE * BOARD_SIZE * BOARD_SIZE |-> CellAt(k)]

\* get_available_moves(): the EMPTY cells, in canonical order.
get_available_moves(g) == SelectSeq(AllCells, LAMBDA c : g[c] = EMPTY_CELL)

is_full(g) == \A c \in Cells : g[c] # EMPTY_CELL

-----------------------------------------------------------------------------
(* game/rules.py: win and draw detection *)

\* A variant that takes a line for won as soon as it holds no EMPTY cell.
LineOwnerNoEmpty(g, line) ==
    IF \A i \in 1 .. Len(line) : g[line[i]] # EMPTY_CELL
    THEN g[line[1]]
    ELSE EMPTY_CELL

\* The player holding every cell of the line (lines 64-72), or 0.
LineOwner(g, line) ==
    IF \A i \in 1 .. Len(line) : g[line[i]] = PLAYER_HUMAN THEN PLAYER_HUMAN
    ELSE IF \A i \in 1 .. Len(line) : g[line[i]] = PLAYER_AI THEN PLAYER_AI
    ELSE EMPTY_CELL

\* The scan "for line in self.winning_lines" over the lines lo .. hi: the
\* index of the first line held by one player, or 0.  (The range is halved
\* rather than walked, which keeps the evaluation shallow.)
RECURSIVE ScanRange(_, _, _)
ScanRange(g, lo, hi) ==
    IF lo > hi THEN 0
    ELSE IF lo = hi
         THEN (IF LineOwner(g, winning_lines[lo]) # EMPTY_CELL THEN lo ELSE 0)
         ELSE LET mid == (lo + hi) \div 2
                  first == ScanRange(g, lo, mid)
              IN  IF first # 0 THEN first ELSE ScanRange(g, mid + 1, hi)

ScanLines(g) == ScanRange(g, 1, Len(winning_lines))

\* A variant of the scan that lets the last held line decide.
RECURSIVE ScanRangeLast(_, _, _)
ScanRangeLast(g, lo, hi) ==
    IF lo > hi THEN 0
    ELSE IF lo = hi
         THEN (IF LineOwner(g, winning_lines[lo]) # EMPTY_CELL THEN lo ELSE 0)
         ELSE LET mid == (lo + hi) \div 2
                  last == ScanRangeLast(g, mid + 1, hi)
              IN  IF last # 0 THEN last ELSE ScanRangeLast(g, lo, mid)

\* A variant of check_winner deciding by the last complete line.
check_winner_last(g) ==
    LET k == ScanRangeLast(g, 1, Len(winning_lines))
    IN  IF k # 0 THEN LineOwner(g, winning_lines[k])
        ELSE IF is_full(g) THEN 0
        ELSE PyNone

\* check_winner's return value.
check_winner(g) ==
    LET k == ScanLines(g)
    IN  IF k # 0 THEN LineOwner(g, winning_lines[k])
        ELSE IF is_full(g) THEN 0
        ELSE PyNone

\* A variant of check_winner that does not reset last_winning_line first.
check_winner_lineNoReset(g) ==
    LET k == ScanLines(g)
    IN  IF k # 0 THEN winning_lines[k] ELSE last_winning_line

\* check_winner's side effect: the value it leaves in last_winning_line.
check_winner_line(g) ==
    LET k == ScanLines(g)
    IN  IF k # 0 THEN winning_lines[k] ELSE <<>>

count_winning_lines == Len(winning_lines)

-----------------------------------------------------------------------------
(* Python helpers *)

Max(a, b) == IF a >= b THEN a ELSE b
Min(a, b) == IF a <= b THEN a ELSE b
Abs(a) == IF a >= 0 THEN a ELSE 0 - a

\* sys.maxsize. It is only ever compared with scores, never computed with.
sys_maxsize == 2147483647

\* "for item in items[lo .. hi]: L = Step(L, item)", left as soon as the body
\* breaks or returns (L.done) or an exception is on its way up (L.S.exc).
\* (The range is halved rather than walked, which keeps the evaluation shallow.)
RECURSIVE Loop(_, _, _, _, _)
Loop(Step(_, _), L, items, lo, hi) ==
    IF lo > hi \/ L.done \/ L.S.exc THEN L
    ELSE IF lo = hi THEN Step(L, items[lo])
    ELSE LET mid == (lo + hi) \div 2
         IN  Loop(Step, Loop(Step, L, items, lo, mid), items, mid + 1, hi)

ForEach(Step(_, _), L, items) == Loop(Step, L, items, 1, Len(items))

\* sum(F(k) for k in lo .. hi)
RECURSIVE SumRange(_, _, _)
SumRange(F(_), lo, hi) ==
    IF lo > hi THEN 0
    ELSE IF lo = hi THEN F(lo)
    ELSE LET mid == (lo + hi) \div 2
         IN  SumRange(F, lo, mid) + SumRange(F, mid + 1, hi)

\* list.sort(reverse=True, key=lambda x: x[0]) on a list of <<score, move>>:
\* descending by score, entries of equal score kept in their order (the sort
\* is stable).
SortedPosition(ms, i) ==
    1 + Cardinality({ j \in 1 .. Len(ms) : ms[j][1] > ms[i][1] })
      + Cardinality({ j \in 1 .. i - 1 : ms[j][1] = ms[i][1] })

SortDescending(ms) ==
    LET pos == [i \in 1 .. Len(ms) |-> SortedPosition(ms, i)]
    IN  [r \in 1 .. Len(ms) |-> ms[CHOOSE i \in 1 .. Len(ms) : pos[i] = r]]

\* [move for score, move in move_scores]
MovesOf(ms) == [i \in 1 .. Len(ms) |-> ms[i][2]]

\* items[:n]
Take(items, n) == SubSeq(items, 1, Min(n, Len(items)))

-----------------------------------------------------------------------------
(* The board as a search sees it.  A search works on one record:           *)
(*   g      the grid, mutated in place by make_move / undo_move            *)
(*   n      nodes_evaluated                                                *)
(*   tt     transposition_table, key <<grid, depth, is_max>> -> score      *)
(*   writes how many times "transposition_table[key] = result" has run     *)
(*   peak   the largest number of entries the table has held               *)
(*   skipped how many results were not stored because the table was full   *)
(*   hist   the cells set by the make_moves of this call not yet undone    *)
(*   inv    a make_move has failed and its False was dropped, or an        *)
(*          undo_move has cleared a cell other than the last one made      *)
(*   exc    an exception is propagating out of the call                    *)
(*   tried  the candidates the loop of get_best_move has searched, in its  *)
(*          order, each with the score the recursive search gave for it    *)
(*   caught AlphaBetaPruning.get_best_move has caught an exception of the  *)
(*          engine it ran                                                  *)
(*   old    the keys the table holds when the search begins                *)
(*   hits   how many times "return self.transposition_table[cache_key]"    *)
(*          has run                                                        *)
(*   stale  how many of these hits read an entry this search did not write *)
(*   opaque how many hits of AlphaBetaHeuristicAI returned a score other   *)
(*          than the one the call computes when it does not use the table  *)

EmptyTable == [k \in {} |-> 0]

NewSearch(g, table) ==
    [g |-> g, n |-> 0, tt |-> table, writes |-> 0, peak |-> 0, skipped |-> 0,
     hist |-> <<>>, inv |-> FALSE, exc |-> FALSE, tried |-> <<>>,
     caught |-> FALSE, old |-> DOMAIN table, hits |-> 0, stale |-> 0,
     opaque |-> 0]

\* Where Board.make_move / undo_move land for the arguments (a, b, c) an
\* engine passes: as they are on the Board; on a _BoardAdapter (alpha_beta.py
\* lines 37-46), whose make_move(z, x, y) calls Board.make_move(x, y, z).
Target(ad, a, b, c) == IF ad THEN <<b, c, a>> ELSE <<a, b, c>>

\* board.make_move(a, b, c, player), its result dropped as every engine does.
EMake(S, ad, a, b, c, player) ==
    IF S.exc THEN S
    ELSE LET t == Target(ad, a, b, c)
             ok == make_move_ok(S.g, t[1], t[2], t[3])
         IN  [S EXCEPT !.g = make_move(S.g, t[1], t[2], t[3], player),
                       !.hist = IF ok THEN Append(@, t) ELSE @,
                       !.inv = @ \/ ~ ok]

\* board.undo_move(a, b, c): InvalidMove is raised on an EMPTY cell.
EUndo(S, ad, a, b, c) ==
    IF S.exc THEN S
    ELSE LET t == Target(ad, a, b, c)
             last == S.hist # <<>> /\ S.hist[Len(S.hist)] = t
         IN  IF ~ undo_move_ok(S.g, t[1], t[2], t[3])
             THEN [S EXCEPT !.exc = TRUE, !.inv = TRUE]
             ELSE [S EXCEPT !.g = undo_move(S.g, t[1], t[2], t[3]),
                            !.hist = IF last THEN SubSeq(@, 1, Len(@) - 1)
                                     ELSE SelectSeq(@, LAMBDA c2 : c2 # t),
                            !.inv = @ \/ ~ last]

\* What get_best_move hands back: the move (<<>> is None), or an exception.
Returned(S, move) == [S |-> S, move |-> move, raised |-> FALSE]
Raised(S) == [S |-> S, move |-> <<>>, raised |-> TRUE]
Outcome(S, move) == IF S.exc THEN Raised(S) ELSE Returned(S, move)

-----------------------------------------------------------------------------
(* ai/heuristics.py *)

CountIn(g, line, v) == Cardinality({ i \in 1 .. Len(line) : g[line[i]] = v })

v1_line(g, line, player) ==
    LET ai_count == CountIn(g, line, player)
        opp_count == CountIn(g, line, 0 - player)
    IN  IF ai_count > 0 /\ opp_count = 0 THEN ai_count * ai_count
        ELSE IF opp_count > 0 /\ ai_count = 0 THEN 0 - opp_count * opp_count
        ELSE 0

evaluate_v1_basic(g, player) ==
    SumRange(LAMBDA k : v1_line(g, winning_lines[k], player), 1, Len(winning_lines))

center == << <<1,1,1>>, <<1,1,2>>, <<1,2,1>>, <<1,2,2>>,
             <<2,1,1>>, <<2,1,2>>, <<2,2,1>>, <<2,2,2>> >>

corners == << <<0,0,0>>, <<0,0,3>>, <<0,3,0>>, <<0,3,3>>,
              <<3,0,0>>, <<3,0,3>>, <<3,3,0>>, <<3,3,3>> >>

PositionBonus(g, cells, player, bonus) ==
    SumRange(LAMBDA k : IF g[cells[k]] = player THEN bonus
                        ELSE IF g[cells[k]] = 0 - player THEN 0 - bonus
                        ELSE 0,
             1, Len(cells))

evaluate_v2_positional(g, player) ==
    evaluate_v1_basic(g, player)
        + PositionBonus(g, center, player, 10)
        + PositionBonus(g, corners, player, 5)

v3_line(g, line, player) ==
    LET ai_count == CountIn(g, line, player)
        opp_count == CountIn(g, line, 0 - player)
        empty == CountIn(g, line, 0)
    IN  (IF ai_count = 3 /\ empty = 1 THEN 100 ELSE 0)
          - (IF opp_count = 3 /\ empty = 1 THEN 150 ELSE 0)

evaluate_v3_aggressive(g, player) ==
    evaluate_v2_positional(g, player)
        + SumRange(LAMBDA k : v3_line(g, winning_lines[k], player),
                   1, Len(winning_lines))

\* The _evaluate of the heuristic engines: dispatch on heuristic_version.
HeuristicScore(g, player, heuristic_version) ==
    IF heuristic_version = 1 THEN evaluate_v1_basic(g, player)
    ELSE IF heuristic_version = 2 THEN evaluate_v2_positional(g, player)
    ELSE evaluate_v3_aggressive(g, player)

\* self._evaluate(board, player) inside a search.  The evaluators start with
\* board.get_winning_lines(), which a _BoardAdapter does not have: there the
\* call raises AttributeError.
Evaluate(S, ad, player, heuristic_version) ==
    IF S.exc THEN [S |-> S, score |-> 0]
    ELSE IF ad THEN [S |-> [S EXCEPT !.exc = TRUE], score |-> 0]
    ELSE [S |-> S, score |-> HeuristicScore(S.g, player, heuristic_version)]

-----------------------------------------------------------------------------
(* ai/alphabeta.py: AlphaBetaAI *)

AlphaBetaAI_depth(num_moves, max_depth) ==
    IF num_moves > 50 THEN 2
    ELSE IF num_moves > 30 THEN 3
    ELSE IF num_moves > 15 THEN 4
    ELSE Min(5, max_depth)

\* _order_moves: score = 10 - center_dist, here doubled to stay in integers
\* (center_dist = |z - 1.5| + |x - 1.5| + |y - 1.5|); only the order is used.
AlphaBetaAI_order_moves(moves) ==
    MovesOf(SortDescending(
        [i \in 1 .. Len(moves) |->
            << 20 - (Abs(2 * moves[i][1] - 3) + Abs(2 * moves[i][2] - 3)
                       + Abs(2 * moves[i][3] - 3)),
               moves[i] >>]))

\* One turn of "for move in ...: make_move; score = recursive call; undo_move;
\* max_score = max(max_score, score); alpha = max(alpha, score); if beta <=
\* alpha: break", R being what the recursive call gave (lines 119-129).
MaxChild(L, R, ad, move) ==
    [L EXCEPT !.S = EUndo(R.S, ad, move[1], move[2], move[3]),
              !.score = Max(@, R.score),
              !.alpha = Max(@, R.score),
              !.done = L.beta <= Max(L.alpha, R.score)]

\* The same with min_score and beta (lines 134-144).
MinChild(L, R, ad, move) ==
    [L EXCEPT !.S = EUndo(R.S, ad, move[1], move[2], move[3]),
              !.score = Min(@, R.score),
              !.beta = Min(@, R.score),
              !.done = Min(L.beta, R.score) <= L.alpha]

\* The loop variables of a node before its first move.
NodeLoop(S, score, alpha, beta) ==
    [S |-> S, done |-> FALSE, score |-> score, alpha |-> alpha, beta |-> beta]

\* "return max_score" / "return min_score"
NodeScore(L) == [S |-> L.S, score |-> L.score]

RECURSIVE AlphaBetaAI_alphabeta(_, _, _, _, _, _, _)
RECURSIVE AlphaBetaAI_node(_, _, _, _, _, _, _, _)

\* _alphabeta after "self.nodes_evaluated += 1; winner = board.check_winner()"
AlphaBetaAI_node(S, winner, ad, depth, alpha, beta, is_max, player) ==
    IF winner = player THEN [S |-> S, score |-> 1000 + depth]
    ELSE IF winner # PyNone THEN [S |-> S, score |-> (0 - 1000) - depth]
    ELSE IF is_full(S.g) \/ depth = 0 THEN [S |-> S, score |-> 0]
    ELSE IF is_max
    THEN NodeScore(ForEach(
             LAMBDA L, move :
                 MaxChild(L, AlphaBetaAI_alphabeta(
                                 EMake(L.S, ad, move[1], move[2], move[3], player),
                                 ad, depth - 1, L.alpha, L.beta, FALSE, player),
                          ad, move),
             NodeLoop(S, 0 - sys_maxsize, alpha, beta),
             get_available_moves(S.g)))
    ELSE NodeScore(ForEach(
             LAMBDA L, move :
                 MinChild(L, AlphaBetaAI_alphabeta(
                                 EMake(L.S, ad, move[1], move[2], move[3], 0 - player),
                                 ad, depth - 1, L.alpha, L.beta, TRUE, player),
                          ad, move),
             NodeLoop(S, sys_maxsize, alpha, beta),
             get_available_moves(S.g)))

AlphaBetaAI_alphabeta(S, ad, depth, alpha, beta, is_max, player) ==
    IF S.exc THEN [S |-> S, score |-> 0]
    ELSE AlphaBetaAI_node([S EXCEPT !.n = @ + 1], check_winner(S.g),
                          ad, depth, alpha, beta, is_max, player)

\* One turn of "for move in available_moves: make_move(player); if
\* check_winner() == player: undo_move; return move; undo_move", S1 being the
\* search after the make_move (lines 33-40; AlphaBetaHeuristicAI lines 39-45;
\* MinimaxAI lines 35-43 and 47-55, where the undo_move comes before the
\* test of the winner on both paths).
WinningMoveTurn(L, S1, ad, move, player) ==
    [L EXCEPT !.S = EUndo(S1, ad, move[1], move[2], move[3]),
              !.done = check_winner(S1.g) = player,
              !.move = IF check_winner(S1.g) = player THEN move ELSE @]

WinningMoveScan(S, ad, moves, player) ==
    ForEach(LAMBDA L, move :
                WinningMoveTurn(L, EMake(L.S, ad, move[1], move[2], move[3], player),
                                ad, move, player),
            [S |-> S, done |-> FALSE, move |-> <<>>],
            moves)

\* One turn of "for move in available_moves: make_move(opponent); if
\* check_winner() == opponent: opponent_winning_moves.append(move);
\* undo_move" (lines 45-50; AlphaBetaHeuristicAI lines 50-55).
OpponentWinningTurn(L, S1, ad, move, opponent) ==
    [L EXCEPT !.S = EUndo(S1, ad, move[1], move[2], move[3]),
              !.moves = IF check_winner(S1.g) = opponent THEN Append(@, move) ELSE @]

OpponentWinningMoves(S, ad, moves, opponent) ==
    ForEach(LAMBDA L, move :
                OpponentWinningTurn(L, EMake(L.S, ad, move[1], move[2], move[3], opponent),
                                    ad, move, opponent),
            [S |-> S, done |-> FALSE, moves |-> <<>>],
            moves)

\* One turn of the loop over ordered_moves (lines 71-80), R being what
\* _alphabeta gave.
AlphaBetaAI_best(L, R, ad, move) ==
    [L EXCEPT !.S = [EUndo(R.S, ad, move[1], move[2], move[3])
                        EXCEPT !.tried = Append(@, <<move, R.score>>)],
              !.best_score = IF R.score > L.best_score THEN R.score ELSE @,
              !.best_move = IF R.score > L.best_score THEN move ELSE @,
              !.alpha = IF R.score > L.best_score THEN Max(@, R.score) ELSE @]

\* The search over the ordered moves (lines 62-80).
AlphaBetaAI_search(S, ad, ordered_moves, depth, player) ==
    ForEach(LAMBDA L, move :
                AlphaBetaAI_best(L, AlphaBetaAI_alphabeta(
                                        EMake(L.S, ad, move[1], move[2], move[3], player),
                                        ad, depth - 1, L.alpha, L.beta, FALSE, player),
                                 ad, move),
            [S |-> S, done |-> FALSE, best_score |-> 0 - sys_maxsize,
             best_move |-> <<>>, alpha |-> 0 - sys_maxsize, beta |-> sys_maxsize],
            ordered_moves)

\* Lines 82-88, T being the loop variables the search ended with.
AlphaBetaAI_after_search(T, available_moves) ==
    IF T.S.exc THEN Raised(T.S)
    ELSE IF T.best_score <= 0 - 900 THEN Returned(T.S, available_moves[1])
    ELSE IF T.best_move # <<>> THEN Returned(T.S, T.best_move)
    ELSE Returned(T.S, available_moves[1])

\* Lines 52-80, B being what the scan for the opponent's winning moves gave.
AlphaBetaAI_after_block_scan(B, ad, available_moves, player, max_depth) ==
    IF B.S.exc THEN Raised(B.S)
    ELSE IF Len(B.moves) = 1 THEN Returned(B.S, B.moves[1])
    ELSE IF Len(B.moves) > 1 THEN Returned(B.S, available_moves[1])
    ELSE AlphaBetaAI_after_search(
             AlphaBetaAI_search(B.S, ad, AlphaBetaAI_order_moves(available_moves),
                                AlphaBetaAI_depth(Len(available_moves), max_depth),
                                player),
             available_moves)

\* Lines 39-50, W being what the scan for a winning move gave.
AlphaBetaAI_after_win_scan(W, ad, available_moves, player, max_depth) ==
    IF W.S.exc \/ W.done THEN Outcome(W.S, W.move)
    ELSE AlphaBetaAI_after_block_scan(
             OpponentWinningMoves(W.S, ad, available_moves, 0 - player),
             ad, available_moves, player, max_depth)

\* Lines 17-37, S0 being the search at its start.
AlphaBetaAI_start(S0, ad, available_moves, player, max_depth) ==
    IF available_moves = <<>> THEN Returned(S0, <<>>)
    ELSE AlphaBetaAI_after_win_scan(
             WinningMoveScan(S0, ad, available_moves, player),
             ad, available_moves, player, max_depth)

AlphaBetaAI_get_best_move(g, ad, player, max_depth) ==
    AlphaBetaAI_start(NewSearch(g, EmptyTable), ad, get_available_moves(g),
                      player, max_depth)

-----------------------------------------------------------------------------
(* ai/minimax.py: MinimaxAI *)

MinimaxAI_depth(num_moves) ==
    IF num_moves > 55 THEN 1
    ELSE IF num_moves > 45 THEN 2
    ELSE IF num_moves > 25 THEN 3
    ELSE 4

\* board.grid[a][b][c] as an engine reads it: the Board's own grid, or the
\* transposed view a _BoardAdapter gives (alpha_beta.py lines 29-35).
GridAt(g, ad, a, b, c) == g[Target(ad, a, b, c)]

directions ==
    << <<1, 0, 0>>, <<0, 1, 0>>, <<0, 0, 1>>,
       <<1, 1, 0>>, <<1, 0, 1>>, <<0, 1, 1>>,
       <<1, -1, 0>>, <<1, 0, -1>>, <<0, 1, -1>>,
       <<1, 1, 1>>, <<1, 1, -1>>, <<1, -1, 1>>, <<-1, 1, 1>> >>

\* _evaluate_line (lines 115-143), d being (dz, dx, dy)
MinimaxAI_evaluate_line(g, ad, z, x, y, d, player) ==
    LET on == { i \in -3 .. 3 : InRange(z + i * d[1], x + i * d[2], y + i * d[3]) }
        at(i) == GridAt(g, ad, z + i * d[1], x + i * d[2], y + i * d[3])
        player_count == Cardinality({ i \in on : at(i) = player })
        opponent_count == Cardinality({ i \in on : at(i) = 0 - player })
    IN  IF player_count = 4 THEN 1000
        ELSE IF opponent_count = 4 THEN 0 - 1000
        ELSE IF player_count > 0 /\ opponent_count = 0
             THEN player_count * player_count * 5
        ELSE IF opponent_count > 0 /\ player_count = 0
             THEN 0 - (opponent_count * opponent_count * 4)
        ELSE 0

\* _quick_evaluate_move after its make_move, S1 being the search then
\* (lines 99-112)
MinimaxAI_quick_score(S1, ad, z, x, y, player) ==
    [S |-> EUndo(S1, ad, z, x, y),
     score |-> (10 - (Abs(2 * z - 3) + Abs(2 * x - 3) + Abs(2 * y - 3)))
                 + SumRange(LAMBDA k : MinimaxAI_evaluate_line(
                                           S1.g, ad, z, x, y, directions[k], player),
                            1, Len(directions))]

MinimaxAI_quick_evaluate_move(S, ad, z, x, y, player) ==
    MinimaxAI_quick_score(EMake(S, ad, z, x, y, player), ad, z, x, y, player)

\* (hash(board.grid.tobytes()), depth, is_max); the hash is taken to tell any
\* two grids apart.
CacheKey(g, depth, is_max) == <<g, depth, is_max>>

\* A variant of the start of get_best_move that keeps the table.
transposition_table_kept(table) == table

\* "self.transposition_table.clear()" at the start of get_best_move
\* (minimax.py line 16, alphabeta_heuristic.py line 20)
transposition_table_clear(table) == EmptyTable

\* "if cache_key in self.transposition_table:
\*      return self.transposition_table[cache_key]", the node counted before
CacheHit(S, key) ==
    [S |-> [S EXCEPT !.n = @ + 1, !.hits = @ + 1,
                     !.stale = IF key \in S.old THEN @ + 1 ELSE @],
     score |-> S.tt[key]]

\* The cache hit H, plain being the score the call computes without the table
CacheHitAgainst(H, plain) ==
    [H EXCEPT !.S.opaque = IF H.score # plain THEN @ + 1 ELSE @]

\* The table with result stored under key
TablePut(tt, key, result) ==
    [k \in DOMAIN tt \cup {key} |-> IF k = key THEN result ELSE tt[k]]

\* "if len(self.transposition_table) < self.max_cache_size:
\*      self.transposition_table[cache_key] = result"
CacheStoreFull(S, key, result, max_cache_size) ==
    IF Cardinality(DOMAIN S.tt) <= max_cache_size
    THEN [S EXCEPT !.tt = TablePut(@, key, result), !.writes = @ + 1,
                   !.peak = Max(@, Cardinality(DOMAIN S.tt \cup {key}))]
    ELSE [S EXCEPT !.skipped = @ + 1]

CacheStore(S, key, result, max_cache_size) ==
    IF Cardinality(DOMAIN S.tt) < max_cache_size
    THEN [S EXCEPT !.tt = TablePut(@, key, result), !.writes = @ + 1,
                   !.peak = Max(@, Cardinality(DOMAIN S.tt \cup {key}))]
    ELSE [S EXCEPT !.skipped = @ + 1]

\* "result = ...; <store>; return result", R being the search and the result
CacheResult(R, key, max_cache_size) ==
    [S |-> IF R.S.exc THEN R.S ELSE CacheStore(R.S, key, R.score, max_cache_size),
     score |-> R.score]

\* moves[:15] when depth <= 2 and there are more than 15 moves
MinimaxAI_moves(moves, depth) ==
    IF depth <= 2 /\ Len(moves) > 15 THEN Take(moves, 15) ELSE moves

\* One turn of "for move in moves: make_move; score = self._minimax(...);
\* undo_move; max_score = max(max_score, score); if max_score >= 10000:
\* break", R being what the recursive call gave (lines 189-199).
MinimaxAI_max_child(L, R, ad, move) ==
    [L EXCEPT !.S = EUndo(R.S, ad, move[1], move[2], move[3]),
              !.score = Max(@, R.score),
              !.done = Max(L.score, R.score) >= 10000]

\* The same with min_score and "<= -10000" (lines 212-222).
MinimaxAI_min_child(L, R, ad, move) ==
    [L EXCEPT !.S = EUndo(R.S, ad, move[1], move[2], move[3]),
              !.score = Min(@, R.score),
              !.done = Min(L.score, R.score) <= 0 - 10000]

RECURSIVE MinimaxAI_minimax(_, _, _, _, _, _)
RECURSIVE MinimaxAI_node(_, _, _, _, _, _, _)

\* _minimax from the terminal state check to the result (lines 163-224)
MinimaxAI_node(S, winner, ad, depth, is_max, player, max_cache_size) ==
    IF winner = player THEN [S |-> S, score |-> 10000 + depth]
    ELSE IF winner = 0 - player THEN [S |-> S, score |-> (0 - 10000) - depth]
    ELSE IF is_full(S.g) THEN [S |-> S, score |-> 0]
    ELSE IF depth = 0 THEN [S |-> S, score |-> 0]
    ELSE IF is_max
    THEN NodeScore(ForEach(
             LAMBDA L, move :
                 MinimaxAI_max_child(L, MinimaxAI_minimax(
                                            EMake(L.S, ad, move[1], move[2], move[3], player),
                                            ad, depth - 1, FALSE, player, max_cache_size),
                                     ad, move),
             [S |-> S, done |-> FALSE, score |-> 0 - sys_maxsize],
             MinimaxAI_moves(get_available_moves(S.g), depth)))
    ELSE NodeScore(ForEach(
             LAMBDA L, move :
                 MinimaxAI_min_child(L, MinimaxAI_minimax(
                                            EMake(L.S, ad, move[1], move[2], move[3], 0 - player),
                                            ad, depth - 1, TRUE, player, max_cache_size),
                                     ad, move),
             [S |-> S, done |-> FALSE, score |-> sys_maxsize],
             MinimaxAI_moves(get_available_moves(S.g), depth)))

MinimaxAI_minimax(S, ad, depth, is_max, player, max_cache_size) ==
    IF S.exc THEN [S |-> S, score |-> 0]
    ELSE IF CacheKey(S.g, depth, is_max) \in DOMAIN S.tt
    THEN CacheHit(S, CacheKey(S.g, depth, is_max))
    ELSE CacheResult(MinimaxAI_node([S EXCEPT !.n = @ + 1], check_winner(S.g),
                                    ad, depth, is_max, player, max_cache_size),
                     CacheKey(S.g, depth, is_max), max_cache_size)

\* "move_scores.append((score, move))", Q being what _quick_evaluate_move gave
MinimaxAI_scored(L, Q, move) ==
    [L EXCEPT !.S = Q.S, !.scores = Append(@, <<Q.score, move>>)]

\* move_scores (lines 58-62), before the sort
MinimaxAI_move_scores(S, ad, moves, player) ==
    ForEach(LAMBDA L, move :
                MinimaxAI_scored(L, MinimaxAI_quick_evaluate_move(
                                        L.S, ad, move[1], move[2], move[3], player),
                                 move),
            [S |-> S, done |-> FALSE, scores |-> <<>>],
            moves)

\* One turn of the loop over moves_to_search (lines 75-84), R being what
\* _minimax gave.
MinimaxAI_best(L, R, ad, move) ==
    [L EXCEPT !.S = [EUndo(R.S, ad, move[1], move[2], move[3])
                        EXCEPT !.tried = Append(@, <<move, R.score>>)],
              !.best_score = IF R.score > L.best_score THEN R.score ELSE @,
              !.best_move = IF R.score > L.best_score THEN move ELSE @]

\* The search over moves_to_search (lines 68-86)
MinimaxAI_search(S, ad, moves_to_search, depth, player, max_cache_size) ==
    ForEach(LAMBDA L, move :
                MinimaxAI_best(L, MinimaxAI_minimax(
                                      EMake(L.S, ad, move[1], move[2], move[3], player),
                                      ad, depth - 1, FALSE, player, max_cache_size),
                               ad, move),
            [S |-> S, done |-> FALSE, best_score |-> 0 - sys_maxsize,
             best_move |-> moves_to_search[1]],
            moves_to_search)

\* "return best_move"
BestMove(T) == Outcome(T.S, T.best_move)

\* Lines 57-86, Q being the move scores
MinimaxAI_after_scores(Q, ad, available_moves, player, max_cache_size) ==
    IF Q.S.exc THEN Raised(Q.S)
    ELSE BestMove(MinimaxAI_search(
                      Q.S, ad, Take(MovesOf(SortDescending(Q.scores)), 25),
                      MinimaxAI_depth(Len(available_moves)), player, max_cache_size))

\* Lines 45-65, B being what the scan for the opponent's winning move gave
MinimaxAI_after_block_scan(B, ad, available_moves, player, max_cache_size) ==
    IF B.S.exc \/ B.done THEN Outcome(B.S, B.move)
    ELSE MinimaxAI_after_scores(
             MinimaxAI_move_scores(B.S, ad, available_moves, player),
             ad, available_moves, player, max_cache_size)

\* Lines 33-55, W being what the scan for a winning move gave
MinimaxAI_after_win_scan(W, ad, available_moves, player, max_cache_size) ==
    IF W.S.exc \/ W.done THEN Outcome(W.S, W.move)
    ELSE MinimaxAI_after_block_scan(
             WinningMoveScan(W.S, ad, available_moves, 0 - player),
             ad, available_moves, player, max_cache_size)

\* Lines 14-43, S0 being the search at its start
MinimaxAI_start(S0, ad, available_moves, player, max_cache_size) ==
    IF available_moves = <<>> THEN Returned(S0, <<>>)
    ELSE MinimaxAI_after_win_scan(
             WinningMoveScan(S0, ad, available_moves, player),
             ad, available_moves, player, max_cache_size)

MinimaxAI_get_best_move(g, ad, player, max_cache_size, table) ==
    MinimaxAI_start(NewSearch(g, transposition_table_clear(table)), ad,
                    get_available_moves(g), player, max_cache_size)

-----------------------------------------------------------------------------
(* ai/alphabeta_heuristic.py: AlphaBetaHeuristicAI *)

AlphaBetaHeuristicAI_depth(num_moves, max_depth) ==
    IF num_moves > 50 THEN 2
    ELSE IF num_moves > 35 THEN 3
    ELSE IF num_moves > 20 THEN 4
    ELSE Min(5, max_depth)

\* "undo_move; move_scores.append((score, move))", E being what _evaluate gave
HeuristicScored(L, E, ad, move) ==
    [L EXCEPT !.S = EUndo(E.S, ad, move[1], move[2], move[3]),
              !.scores = Append(@, <<E.score, move>>)]

\* "for move in moves: make_move(who); score = self._evaluate(board, who);
\* undo_move; move_scores.append((score, move))" (lines 163-168, 195-200)
HeuristicMoveScores(S, ad, moves, who, heuristic_version) ==
    ForEach(LAMBDA L, move :
                HeuristicScored(L, Evaluate(EMake(L.S, ad, move[1], move[2], move[3], who),
                                            ad, who, heuristic_version),
                                ad, move),
            [S |-> S, done |-> FALSE, scores |-> <<>>],
            moves)

\* One turn of the loop of _get_ordered_moves after its make_move, S1 being
\* the search then (lines 102-111).
HeuristicAI_ordered_turn(L, S1, ad, move, player, heuristic_version) ==
    IF check_winner(S1.g) = player
    THEN [L EXCEPT !.S = EUndo(S1, ad, move[1], move[2], move[3]),
                   !.done = TRUE,
                   !.win = <<move>>]
    ELSE HeuristicScored(L, Evaluate(S1, ad, player, heuristic_version), ad, move)

\* "return [move]" from inside the loop, or the sorted moves (lines 105,
\* 113-115)
HeuristicAI_ordered(L) ==
    [S |-> L.S,
     moves |-> IF L.done THEN L.win ELSE MovesOf(SortDescending(L.scores))]

\* _get_ordered_moves (lines 93-115; MinimaxHeuristicAI has the same method,
\* lines 60-81): a move that wins at once is returned alone.
HeuristicAI_get_ordered_moves(S, ad, moves, player, heuristic_version) ==
    HeuristicAI_ordered(ForEach(
        LAMBDA L, move :
            HeuristicAI_ordered_turn(L, EMake(L.S, ad, move[1], move[2], move[3], player),
                                     ad, move, player, heuristic_version),
        [S |-> S, done |-> FALSE, scores |-> <<>>, win |-> <<>>],
        moves))

\* "move_scores.sort(reverse=True, ...); moves = [move for _, move in
\* move_scores[:20]]" (lines 169-170, 201-202)
AlphaBetaHeuristicAI_best20(M) ==
    [S |-> M.S, moves |-> MovesOf(Take(SortDescending(M.scores), 20))]

\* The moves a node of _alphabeta goes through (lines 157-170, 189-202),
\* moves being board.get_available_moves()
AlphaBetaHeuristicAI_moves(S, moves, ad, depth, who, heuristic_version) ==
    IF depth <= 2 /\ Len(moves) > 20
    THEN AlphaBetaHeuristicAI_best20(
             HeuristicMoveScores(S, ad, moves, who, heuristic_version))
    ELSE [S |-> S, moves |-> moves]

RECURSIVE AlphaBetaHeuristicAI_alphabeta(_, _, _, _, _, _, _, _, _)
RECURSIVE AlphaBetaHeuristicAI_max_loop(_, _, _, _, _, _, _, _)
RECURSIVE AlphaBetaHeuristicAI_min_loop(_, _, _, _, _, _, _, _)
RECURSIVE AlphaBetaHeuristicAI_node(_, _, _, _, _, _, _, _, _, _)

\* Lines 172-185, M being the search and the moves to go through
AlphaBetaHeuristicAI_max_loop(M, ad, depth, alpha, beta, player, heuristic_version, max_cache_size) ==
    NodeScore(ForEach(
        LAMBDA L, move :
            MaxChild(L, AlphaBetaHeuristicAI_alphabeta(
                            EMake(L.S, ad, move[1], move[2], move[3], player),
                            ad, depth - 1, L.alpha, L.beta, FALSE, player,
                            heuristic_version, max_cache_size),
                     ad, move),
        NodeLoop(M.S, 0 - sys_maxsize, alpha, beta),
        M.moves))

\* Lines 204-217
AlphaBetaHeuristicAI_min_loop(M, ad, depth, alpha, beta, player, heuristic_version, max_cache_size) ==
    NodeScore(ForEach(
        LAMBDA L, move :
            MinChild(L, AlphaBetaHeuristicAI_alphabeta(
                            EMake(L.S, ad, move[1], move[2], move[3], 0 - player),
                            ad, depth - 1, L.alpha, L.beta, TRUE, player,
                            heuristic_version, max_cache_size),
                     ad, move),
        NodeLoop(M.S, sys_maxsize, alpha, beta),
        M.moves))

\* _alphabeta from the terminal state checks to the result (lines 143-217)
AlphaBetaHeuristicAI_node(S, winner, ad, depth, alpha, beta, is_max, player, heuristic_version, max_cache_size) ==
    IF winner = player THEN [S |-> S, score |-> 1000 + depth]
    ELSE IF winner = 0 - player THEN [S |-> S, score |-> (0 - 1000) - depth]
    ELSE IF is_full(S.g) THEN [S |-> S, score |-> 0]
    ELSE IF depth = 0 THEN Evaluate(S, ad, player, heuristic_version)
    ELSE IF is_max
    THEN AlphaBetaHeuristicAI_max_loop(
             AlphaBetaHeuristicAI_moves(S, get_available_moves(S.g), ad, depth, player,
                                        heuristic_version),
             ad, depth, alpha, beta, player, heuristic_version, max_cache_size)
    ELSE AlphaBetaHeuristicAI_min_loop(
             AlphaBetaHeuristicAI_moves(S, get_available_moves(S.g), ad, depth,
                                        0 - player, heuristic_version),
             ad, depth, alpha, beta, player, heuristic_version, max_cache_size)

\* What lines 143-218 compute for the node when no table is kept: nothing
\* is found in it and, max_cache_size being 0, nothing is stored.
AlphaBetaHeuristicAI_plain(S, ad, depth, alpha, beta, is_max, player, heuristic_version) ==
    AlphaBetaHeuristicAI_node([S EXCEPT !.tt = EmptyTable], check_winner(S.g),
                              ad, depth, alpha, beta, is_max, player,
                              heuristic_version, 0).score

AlphaBetaHeuristicAI_alphabeta(S, ad, depth, alpha, beta, is_max, player, heuristic_version, max_cache_size) ==
    IF S.exc THEN [S |-> S, score |-> 0]
    ELSE IF CacheKey(S.g, depth, is_max) \in DOMAIN S.tt
    THEN CacheHitAgainst(CacheHit(S, CacheKey(S.g, depth, is_max)),
                         AlphaBetaHeuristicAI_plain(S, ad, depth, alpha, beta, is_max,
                                                    player, heuristic_version))
    ELSE CacheResult(
             AlphaBetaHeuristicAI_node([S EXCEPT !.n = @ + 1], check_winner(S.g),
                                       ad, depth, alpha, beta, is_max, player,
                                       heuristic_version, max_cache_size),
             CacheKey(S.g, depth, is_max), max_cache_size)

\* One turn of the loop over moves (lines 76-89), R being what _alphabeta gave
AlphaBetaHeuristicAI_best(L, R, ad, move) ==
    [L EXCEPT !.S = [EUndo(R.S, ad, move[1], move[2], move[3])
                        EXCEPT !.tried = Append(@, <<move, R.score>>)],
              !.best_score = IF R.score > L.best_score THEN R.score ELSE @,
              !.best_move = IF R.score > L.best_score THEN move ELSE @,
              !.alpha = IF R.score > L.best_score THEN Max(@, R.score) ELSE @,
              !.done = Max(L.best_score, R.score) >= 900]

\* The search over the ordered moves (lines 71-91)
AlphaBetaHeuristicAI_search(S, ad, moves, depth, player, heuristic_version, max_cache_size) ==
    ForEach(LAMBDA L, move :
                AlphaBetaHeuristicAI_best(
                    L, AlphaBetaHeuristicAI_alphabeta(
                           EMake(L.S, ad, move[1], move[2], move[3], player),
                           ad, depth - 1, L.alpha, L.beta, FALSE, player,
                           heuristic_version, max_cache_size),
                    ad, move),
            [S |-> S, done |-> FALSE, best_score |-> 0 - sys_maxsize,
             best_move |-> moves[1], alpha |-> 0 - sys_maxsize, beta |-> sys_maxsize],
            moves)

\* Lines 67-91, O being what _get_ordered_moves gave
AlphaBetaHeuristicAI_after_ordering(O, ad, depth, player, heuristic_version, max_cache_size) ==
    IF O.S.exc THEN Raised(O.S)
    ELSE BestMove(AlphaBetaHeuristicAI_search(
                      O.S, ad, Take(O.moves, 25), depth, player,
                      heuristic_version, max_cache_size))

\* Lines 57-65, B being what the scan for the opponent's winning moves gave
AlphaBetaHeuristicAI_after_block_scan(B, ad, available_moves, player, max_depth, heuristic_version, max_cache_size) ==
    IF B.S.exc THEN Raised(B.S)
    ELSE IF Len(B.moves) = 1 THEN Returned(B.S, B.moves[1])
    ELSE AlphaBetaHeuristicAI_after_ordering(
             HeuristicAI_get_ordered_moves(
                 B.S, ad, IF Len(B.moves) > 1 THEN B.moves ELSE available_moves,
                 player, heuristic_version),
             ad, AlphaBetaHeuristicAI_depth(Len(available_moves), max_depth),
             player, heuristic_version, max_cache_size)

\* Lines 38-55, W being what the scan for a winning move gave
AlphaBetaHeuristicAI_after_win_scan(W, ad, available_moves, player, max_depth, heuristic_version, max_cache_size) ==
    IF W.S.exc \/ W.done THEN Outcome(W.S, W.move)
    ELSE AlphaBetaHeuristicAI_after_block_scan(
             OpponentWinningMoves(W.S, ad, available_moves, 0 - player),
             ad, available_moves, player, max_depth, heuristic_version,
             max_cache_size)

\* Lines 17-45, S0 being the search at its start
AlphaBetaHeuristicAI_start(S0, ad, available_moves, player, max_depth, heuristic_version, max_cache_size) ==
    IF available_moves = <<>> THEN Returned(S0, <<>>)
    ELSE AlphaBetaHeuristicAI_after_win_scan(
             WinningMoveScan(S0, ad, available_moves, player),
             ad, available_moves, player, max_depth, heuristic_version,
             max_cache_size)

AlphaBetaHeuristicAI_get_best_move(g, ad, player, max_depth, heuristic_version, max_cache_size, table) ==
    AlphaBetaHeuristicAI_start(NewSearch(g, transposition_table_clear(table)), ad,
                               get_available_moves(g), player, max_depth,
                               heuristic_version, max_cache_size)

-----------------------------------------------------------------------------
(* ai/minimax_heuristic.py: MinimaxHeuristicAI *)

MinimaxHeuristicAI_depth(empty_cells, max_depth) ==
    Min(IF empty_cells > 50 THEN 1
        ELSE IF empty_cells > 30 THEN 2
        ELSE IF empty_cells > 15 THEN 3
        ELSE 4,
        max_depth)

\* One turn of "for move in ...: make_move; score = self._minimax(...);
\* undo_move; max_score = max(max_score, score); if max_score >= 1000:
\* break", R being what the recursive call gave and m the cell of the
\* make_move (lines 109-118; MinimaxHeuristicReductionAI lines 174-182).
HeuristicMaxChild(L, R, ad, m) ==
    [L EXCEPT !.S = EUndo(R.S, ad, m[1], m[2], m[3]),
              !.score = Max(@, R.score),
              !.done = Max(L.score, R.score) >= 1000]

\* The same with min_score and "<= -1000" (lines 123-132; 188-196).
HeuristicMinChild(L, R, ad, m) ==
    [L EXCEPT !.S = EUndo(R.S, ad, m[1], m[2], m[3]),
              !.score = Min(@, R.score),
              !.done = Min(L.score, R.score) <= 0 - 1000]

RECURSIVE MinimaxHeuristicAI_minimax(_, _, _, _, _, _, _)
RECURSIVE MinimaxHeuristicAI_node(_, _, _, _, _, _, _, _)

\* _minimax after "self.nodes_evaluated += 1" (lines 94-134)
MinimaxHeuristicAI_node(S, winner, ad, depth, is_max, player, heuristic_version, max_nodes) ==
    IF S.n > max_nodes THEN Evaluate(S, ad, player, heuristic_version)
    ELSE IF winner = player THEN [S |-> S, score |-> 1000 + depth]
    ELSE IF winner # PyNone THEN [S |-> S, score |-> (0 - 1000) - depth]
    ELSE IF is_full(S.g) \/ depth = 0
    THEN Evaluate(S, ad, player, heuristic_version)
    ELSE IF is_max
    THEN NodeScore(ForEach(
             LAMBDA L, move :
                 HeuristicMaxChild(L, MinimaxHeuristicAI_minimax(
                                          EMake(L.S, ad, move[1], move[2], move[3], player),
                                          ad, depth - 1, FALSE, player,
                                          heuristic_version, max_nodes),
                                   ad, move),
             [S |-> S, done |-> FALSE, score |-> 0 - sys_maxsize],
             get_available_moves(S.g)))
    ELSE NodeScore(ForEach(
             LAMBDA L, move :
                 HeuristicMinChild(L, MinimaxHeuristicAI_minimax(
                                          EMake(L.S, ad, move[1], move[2], move[3], 0 - player),
                                          ad, depth - 1, TRUE, player,
                                          heuristic_version, max_nodes),
                                   ad, move),
             [S |-> S, done |-> FALSE, score |-> sys_maxsize],
             get_available_moves(S.g)))

MinimaxHeuristicAI_minimax(S, ad, depth, is_max, player, heuristic_version, max_nodes) ==
    IF S.exc THEN [S |-> S, score |-> 0]
    ELSE MinimaxHeuristicAI_node([S EXCEPT !.n = @ + 1], check_winner(S.g),
                                 ad, depth, is_max, player, heuristic_version,
                                 max_nodes)

\* One turn of "for move in moves: make_move; score = self._minimax(...);
\* undo_move; if score > best_score: best_score = score; best_move = move;
\* if self.nodes_evaluated > self.max_nodes: break", R being what _minimax
\* gave and m the cell of the make_move (lines 39-52;
\* MinimaxHeuristicReductionAI lines 63-74).
HeuristicBest(L, R, ad, m, move, max_nodes) ==
    [L EXCEPT !.S = [EUndo(R.S, ad, m[1], m[2], m[3])
                        EXCEPT !.tried = Append(@, <<move, R.score>>)],
              !.best_score = IF R.score > L.best_score THEN R.score ELSE @,
              !.best_move = IF R.score > L.best_score THEN move ELSE @,
              !.done = R.S.n > max_nodes]

\* The search over the ordered moves (lines 33-52)
MinimaxHeuristicAI_search(S, ad, moves, depth, player, heuristic_version, max_nodes) ==
    ForEach(LAMBDA L, move :
                HeuristicBest(
                    L, MinimaxHeuristicAI_minimax(
                           EMake(L.S, ad, move[1], move[2], move[3], player),
                           ad, depth - 1, FALSE, player, heuristic_version, max_nodes),
                    ad, move, move, max_nodes),
            [S |-> S, done |-> FALSE, best_score |-> 0 - sys_maxsize,
             best_move |-> <<>>],
            moves)

\* "moves[0] if moves else None"
FirstOrNone(moves) == IF moves # <<>> THEN moves[1] ELSE <<>>

\* Lines 54-58, T being the loop variables the search ended with
MinimaxHeuristicAI_after_search(T) ==
    IF T.S.exc THEN Raised(T.S)
    ELSE IF T.best_move # <<>> THEN Returned(T.S, T.best_move)
    ELSE Returned(T.S, FirstOrNone(get_available_moves(T.S.g)))

\* Lines 39-58, O being what _get_ordered_moves gave
MinimaxHeuristicAI_after_ordering(O, ad, depth, player, heuristic_version, max_nodes) ==
    IF O.S.exc THEN Raised(O.S)
    ELSE MinimaxHeuristicAI_after_search(
             MinimaxHeuristicAI_search(O.S, ad, O.moves, depth, player,
                                       heuristic_version, max_nodes))

\* Lines 17-37, S0 being the search at its start
MinimaxHeuristicAI_start(S0, ad, available_moves, player, max_depth, heuristic_version, max_nodes) ==
    MinimaxHeuristicAI_after_ordering(
        HeuristicAI_get_ordered_moves(S0, ad, available_moves, player,
                                      heuristic_version),
        ad, MinimaxHeuristicAI_depth(Len(available_moves), max_depth),
        player, heuristic_version, max_nodes)

MinimaxHeuristicAI_get_best_move(g, ad, player, max_depth, heuristic_version, max_nodes) ==
    MinimaxHeuristicAI_start(NewSearch(g, EmptyTable), ad, get_available_moves(g),
                             player, max_depth, heuristic_version, max_nodes)

-----------------------------------------------------------------------------
(* ai/minimax_heuristic_reduction.py: MinimaxHeuristicReductionAI *)

MinimaxHeuristicReductionAI_depth(num_moves, max_depth) ==
    IF num_moves > 50 THEN 1
    ELSE IF num_moves > 30 THEN 2
    ELSE IF num_moves > 15 THEN 3
    ELSE Min(4, max_depth)

\* "z, x, y = move" followed by "(x, y, z)": what this engine passes to
\* make_move and undo_move, and what it returns.
xyz(move) == <<move[2], move[3], move[1]>>

xyzAll(moves) == [i \in 1 .. Len(moves) |-> xyz(moves[i])]

\* The order Python gives tuples of coordinates, as a number.
TupleRank(t) == (16 * t[1]) + (4 * t[2]) + t[3]

\* signature = min(sym1, sym2, sym3, sym4)
signature(move) ==
    LET z == move[1]
        x == move[2]
        y == move[3]
        syms == { <<z, x, y>>, <<z, y, x>>, <<z, 3 - x, y>>, <<z, x, 3 - y>> }
    IN  CHOOSE s \in syms : \A t \in syms : TupleRank(s) <= TupleRank(t)

\* [items[i] for i in 1 .. Len(items) if Keep(i)]
SelectIndexed(items, Keep(_)) ==
    LET kept == SelectSeq([i \in 1 .. Len(items) |-> i], Keep)
    IN  [r \in 1 .. Len(kept) |-> items[kept[r]]]

\* Lines 145-155, unique_moves being the top moves without the repeated
\* signatures and move_scores the sorted list; "s >= best_score * 0.5" is
\* 2 * s >= best_score.
MinimaxHeuristicReductionAI_filterNoFloor(unique_moves, move_scores) ==
    IF Len(unique_moves) > 4
    THEN SelectSeq(unique_moves, LAMBDA e : 2 * e[1] >= unique_moves[1][1])
    ELSE unique_moves

MinimaxHeuristicReductionAI_filter(unique_moves, move_scores) ==
    LET reduced ==
            IF Len(unique_moves) > 4
            THEN SelectSeq(unique_moves, LAMBDA e : 2 * e[1] >= unique_moves[1][1])
            ELSE unique_moves
    IN  IF Len(reduced) < 3 THEN Take(move_scores, 3) ELSE reduced

\* Lines 128-143, reduced being move_scores[:K]
MinimaxHeuristicReductionAI_unique(reduced) ==
    SelectIndexed(reduced, LAMBDA i :
        \A j \in 1 .. i - 1 : signature(reduced[j][2]) # signature(reduced[i][2]))

\* _apply_reductions (lines 118-155)
MinimaxHeuristicReductionAI_sorted_reductions(move_scores) ==
    MinimaxHeuristicReductionAI_filter(
        MinimaxHeuristicReductionAI_unique(Take(move_scores, 8)), move_scores)

MinimaxHeuristicReductionAI_apply_reductions(move_scores) ==
    IF move_scores = <<>> THEN move_scores
    ELSE MinimaxHeuristicReductionAI_sorted_reductions(SortDescending(move_scores))

\* "undo_move(x, y, z); move_scores.append((score, move))", E being what
\* _evaluate gave (lines 100-102)
MinimaxHeuristicReductionAI_scored(L, E, ad, m, move) ==
    [L EXCEPT !.S = EUndo(E.S, ad, m[1], m[2], m[3]),
              !.scores = Append(@, <<E.score, move>>)]

\* One turn of the loop of _get_ordered_moves after its make_move(x, y, z),
\* S1 being the search then and m the cell (x, y, z) (lines 96-102).
MinimaxHeuristicReductionAI_ordered_turn(L, S1, ad, m, move, player, heuristic_version) ==
    IF check_winner(S1.g) = player
    THEN [L EXCEPT !.S = EUndo(S1, ad, m[1], m[2], m[3]),
                   !.done = TRUE,
                   !.win = <<move>>]
    ELSE MinimaxHeuristicReductionAI_scored(
             L, Evaluate(S1, ad, player, heuristic_version), ad, m, move)

\* "return [move]" from inside the loop, or lines 104-107
MinimaxHeuristicReductionAI_ordered(L) ==
    [S |-> L.S,
     moves |-> IF L.done THEN L.win
               ELSE MovesOf(SortDescending(
                        MinimaxHeuristicReductionAI_apply_reductions(L.scores)))]

MinimaxHeuristicReductionAI_get_ordered_moves(S, ad, player, heuristic_version) ==
    MinimaxHeuristicReductionAI_ordered(ForEach(
        LAMBDA L, move :
            MinimaxHeuristicReductionAI_ordered_turn(
                L, EMake(L.S, ad, move[2], move[3], move[1], player),
                ad, xyz(move), move, player, heuristic_version),
        [S |-> S, done |-> FALSE, scores |-> <<>>, win |-> <<>>],
        get_available_moves(S.g)))

RECURSIVE MinimaxHeuristicReductionAI_minimax(_, _, _, _, _, _, _)
RECURSIVE MinimaxHeuristicReductionAI_node(_, _, _, _, _, _, _, _)

\* _minimax after "self.nodes_evaluated += 1" (lines 161-198)
MinimaxHeuristicReductionAI_node(S, winner, ad, depth, is_max, player, heuristic_version, max_nodes) ==
    IF S.n > max_nodes THEN Evaluate(S, ad, player, heuristic_version)
    ELSE IF winner = player THEN [S |-> S, score |-> 1000 + depth]
    ELSE IF winner # PyNone /\ winner # 0
         THEN [S |-> S, score |-> (0 - 1000) - depth]
    ELSE IF is_full(S.g) \/ depth = 0
    THEN Evaluate(S, ad, player, heuristic_version)
    ELSE IF is_max
    THEN NodeScore(ForEach(
             LAMBDA L, move :
                 HeuristicMaxChild(L, MinimaxHeuristicReductionAI_minimax(
                                          EMake(L.S, ad, move[2], move[3], move[1], player),
                                          ad, depth - 1, FALSE, player,
                                          heuristic_version, max_nodes),
                                   ad, xyz(move)),
             [S |-> S, done |-> FALSE, score |-> 0 - sys_maxsize],
             get_available_moves(S.g)))
    ELSE NodeScore(ForEach(
             LAMBDA L, move :
                 HeuristicMinChild(L, MinimaxHeuristicReductionAI_minimax(
                                          EMake(L.S, ad, move[2], move[3], move[1],
                                                3 - player),
                                          ad, depth - 1, TRUE, player,
                                          heuristic_version, max_nodes),
                                   ad, xyz(move)),
             [S |-> S, done |-> FALSE, score |-> sys_maxsize],
             get_available_moves(S.g)))

MinimaxHeuristicReductionAI_minimax(S, ad, depth, is_max, player, heuristic_version, max_nodes) ==
    IF S.exc THEN [S |-> S, score |-> 0]
    ELSE MinimaxHeuristicReductionAI_node(
             [S EXCEPT !.n = @ + 1], check_winner(S.g), ad, depth, is_max, player,
             heuristic_version, max_nodes)

\* The search over the ordered moves (lines 60-74)
MinimaxHeuristicReductionAI_search(S, ad, moves, depth, player, heuristic_version, max_nodes) ==
    ForEach(LAMBDA L, move :
                HeuristicBest(
                    L, MinimaxHeuristicReductionAI_minimax(
                           EMake(L.S, ad, move[2], move[3], move[1], player),
                           ad, depth - 1, FALSE, player, heuristic_version, max_nodes),
                    ad, xyz(move), move, max_nodes),
            [S |-> S, done |-> FALSE, best_score |-> 0 - sys_maxsize,
             best_move |-> moves[1]],
            moves)

\* "return (best_move[1], best_move[2], best_move[0])" (lines 76-77)
MinimaxHeuristicReductionAI_converted(T) == Outcome(T.S, xyz(T.best_move))

\* Lines 57-77, O being what _get_ordered_moves gave
MinimaxHeuristicReductionAI_after_ordering(O, ad, available_moves, depth, player, heuristic_version, max_nodes) ==
    IF O.S.exc THEN Raised(O.S)
    ELSE IF O.moves = <<>> THEN Returned(O.S, xyz(available_moves[1]))
    ELSE MinimaxHeuristicReductionAI_converted(
             MinimaxHeuristicReductionAI_search(O.S, ad, O.moves, depth, player,
                                                heuristic_version, max_nodes))

\* Lines 54-55, B being what the scan for the opponent's winning move gave
MinimaxHeuristicReductionAI_after_block_scan(B, ad, available_moves, player, max_depth, heuristic_version, max_nodes) ==
    IF B.S.exc \/ B.done THEN Outcome(B.S, B.move)
    ELSE MinimaxHeuristicReductionAI_after_ordering(
             MinimaxHeuristicReductionAI_get_ordered_moves(B.S, ad, player,
                                                           heuristic_version),
             ad, available_moves,
             MinimaxHeuristicReductionAI_depth(Len(available_moves), max_depth),
             player, heuristic_version, max_nodes)

\* Lines 44-52, W being what the scan for a winning move gave; the moves are
\* made, undone and returned as (x, y, z).
MinimaxHeuristicReductionAI_after_win_scan(W, ad, available_moves, player, max_depth, heuristic_version, max_nodes) ==
    IF W.S.exc \/ W.done THEN Outcome(W.S, W.move)
    ELSE MinimaxHeuristicReductionAI_after_block_scan(
             WinningMoveScan(W.S, ad, xyzAll(available_moves), 3 - player),
             ad, available_moves, player, max_depth, heuristic_version, max_nodes)

\* Lines 17-42, S0 being the search at its start
MinimaxHeuristicReductionAI_start(S0, ad, available_moves, player, max_depth, heuristic_version, max_nodes) ==
    IF available_moves = <<>> THEN Returned(S0, <<>>)
    ELSE MinimaxHeuristicReductionAI_after_win_scan(
             WinningMoveScan(S0, ad, xyzAll(available_moves), player),
             ad, available_moves, player, max_depth, heuristic_version, max_nodes)

MinimaxHeuristicReductionAI_get_best_move(g, ad, player, max_depth, heuristic_version, max_nodes) ==
    MinimaxHeuristicReductionAI_start(NewSearch(g, EmptyTable), ad,
                                      get_available_moves(g), player, max_depth,
                                      heuristic_version, max_nodes)

-----------------------------------------------------------------------------
(* ai/alpha_beta.py: AlphaBetaPruning, the entry point of the presentation *)
(* layer.  It runs the selected engine on a _BoardAdapter of the board and *)
(* falls back on a one-ply choice by the evaluator on the board itself.    *)
(* board.get_valid_moves() is taken to be what get_available_moves() is in *)
(* section 4.1 of the specification: the EMPTY cells in canonical order.   *)

\* One turn of the fallback loop (lines 141-153), E being what the evaluator
\* gave; scored is "best_score is not None".
AlphaBetaPruning_best(L, E, move) ==
    [L EXCEPT !.S = EUndo(E.S, FALSE, move[1], move[2], move[3]),
              !.best_score = IF ~ L.scored \/ E.score > L.best_score THEN E.score ELSE @,
              !.best_move = IF ~ L.scored \/ E.score > L.best_score THEN move ELSE @,
              !.scored = TRUE]

\* The fallback (lines 134-154), moves being board.get_valid_moves()
AlphaBetaPruning_fallback(S, moves, heuristic_version) ==
    IF moves = <<>> THEN Returned(S, <<>>)
    ELSE BestMove(ForEach(
             LAMBDA L, move :
                 AlphaBetaPruning_best(
                     L, Evaluate(EMake(L.S, FALSE, move[1], move[2], move[3], PLAYER_AI),
                                 FALSE, PLAYER_AI, heuristic_version),
                     move),
             [S |-> S, done |-> FALSE, scored |-> FALSE, best_score |-> 0,
              best_move |-> moves[1]],
             moves))

\* Lines 101-157, R being what ai_impl.get_best_move(adapter, 1) gave:
\* "mz, mx, my = move; result = (mx, my, mz)", or result = None when the
\* move is None and when "except Exception" has caught what the engine
\* raised, the board staying as the engine left it; ai_impl is dropped.
AlphaBetaPruning_after_try(R, heuristic_version) ==
    IF R.raised \/ R.move = <<>>
    THEN AlphaBetaPruning_fallback(
             [R.S EXCEPT !.exc = FALSE, !.caught = R.raised, !.n = 0,
                         !.tt = EmptyTable],
             get_available_moves(R.S.g), heuristic_version)
    ELSE Returned([R.S EXCEPT !.n = 0, !.tt = EmptyTable], xyz(R.move))

\* AlphaBetaPruning.get_best_move(board) (lines 83-157)
AlphaBetaPruning_get_best_move(g, algorithm, max_depth, heuristic_version) ==
    AlphaBetaPruning_after_try(
        IF algorithm = "AlphaBetaHeuristic"
        THEN AlphaBetaHeuristicAI_get_best_move(g, TRUE, 1, max_depth,
                                                heuristic_version, 100000, EmptyTable)
        ELSE IF algorithm = "AlphaBeta"
        THEN AlphaBetaAI_get_best_move(g, TRUE, 1, max_depth)
        ELSE IF algorithm = "Minimax"
        THEN MinimaxAI_get_best_move(g, TRUE, 1, 100000, EmptyTable)
        ELSE Returned(NewSearch(g, EmptyTable), <<>>),
        heuristic_version)

-----------------------------------------------------------------------------
(* The boards the rules are exercised on *)

\* A full board on which no line is held by one player (32 marks each), in the
\* canonical order of the cells.
DrawMarks ==
    << 1,2,2,1, 1,2,1,2, 2,1,2,1, 2,2,2,1,
       2,1,2,2, 1,1,2,1, 1,1,2,1, 2,2,1,1,
       1,1,1,2, 2,1,1,1, 2,1,2,2, 2,2,1,1,
       1,2,2,2, 2,2,1,2, 2,2,1,1, 1,1,1,2 >>

CellIndex(c) == c[1] * BOARD_SIZE * BOARD_SIZE + c[2] * BOARD_SIZE + c[3] + 1

DrawBoard == [c \in Cells |-> DrawMarks[CellIndex(c)]]

\* The cells the caller plays on: the first MaxPlayCells cells along the rows
\* y = 1 of the layers z = 2, 1, 0, 3.
PlayOrder(k) == << (k - 1) % BOARD_SIZE, 1,
                   (2 + 3 * ((k - 1) \div BOARD_SIZE)) % BOARD_SIZE >>

PlayCells == { PlayOrder(k) : k \in 1 .. MaxPlayCells }

-----------------------------------------------------------------------------
(* The engine object and the record of its last call *)

\* An engine object after __init__ (nodes_evaluated = 0, an empty
\* transposition_table), handed a Board, or the _BoardAdapter of a Board (ad).
NewEngine(kind, ad, max_depth, heuristic_version, max_cache_size, max_nodes) ==
    [kind |-> kind, ad |-> ad, max_depth |-> max_depth,
     heuristic_version |-> heuristic_version,
     max_cache_size |-> max_cache_size, max_nodes |-> max_nodes,
     nodes_evaluated |-> 0, transposition_table |-> EmptyTable]

NoEngine == NewEngine("none", FALSE, 0, 0, 0, 0)

\* No get_best_move call has been made.
NoCall ==
    [player |-> 0, before |-> EmptyBoard, move |-> <<>>, raised |-> FALSE,
     inv |-> FALSE, peak |-> 0, writes |-> 0, skipped |-> 0, tried |-> <<>>,
     caught |-> FALSE, had |-> 0, start |-> 0, hits |-> 0, stale |-> 0,
     opaque |-> 0]

\* Neither _alphabeta nor _minimax has been called directly (PyNone: no
\* score yet).  For the direct call of the _minimax of a heuristic engine:
\* heuristic, the score it returned; node, the board it was called on; n, the
\* nodes_evaluated of the engine at the call; raised, an exception came out.
NoSearch ==
    [depth |-> 0, is_max |-> FALSE, player |-> 0,
     alphabeta |-> PyNone, minimax |-> PyNone,
     heuristic |-> PyNone, node |-> EmptyBoard, n |-> 0, raised |-> FALSE]

\* No helper has been called directly.  For _apply_reductions: move_scores,
\* the list it was given; reduced, the list it returned.  For an evaluator:
\* board and player, its arguments; version, which one; score, its result.
NoHelper ==
    [move_scores |-> <<>>, reduced |-> <<>>,
     board |-> EmptyBoard, player |-> 0, version |-> 0, score |-> 0,
     compared |-> FALSE, plain |-> <<>>]

\* No depth has been chosen yet.
NoDepth == [num_moves |-> 0, depth |-> 0, prev_num_moves |-> 0, prev_depth |-> 0]

\* MainWindow after __init__ (gui/main_window.py lines 41-44), no worker
\* thread started and no callback queued.
NewWindow ==
    [current_player |-> PLAYER_HUMAN, game_over |-> FALSE,
     ai_thinking |-> FALSE, move_count |-> 0, workers |-> <<>>, after |-> <<>>]

-----------------------------------------------------------------------------
(* The rules and the board, driven by a caller *)

InitRules ==
    /\ grid \in {EmptyBoard, DrawBoard}
    /\ winning_lines = _generate_all_winning_lines
    /\ last_winning_line = <<>>
    /\ op = "init"
    /\ ret = PyNone
    /\ ai = NoEngine
    /\ call = NoCall
    /\ chosen = NoDepth
    /\ gui = NewWindow
    /\ helper = NoHelper
    /\ recorded = <<>>
    /\ search = NoSearch

\* board.make_move(x, y, z, player)
BoardMakeMove ==
    \E c \in PlayCells, player \in Players :
        /\ grid' = make_move(grid, c[1], c[2], c[3], player)
        /\ op' = "make_move"
        /\ ret' = PyNone
        /\ UNCHANGED <<winning_lines, last_winning_line, ai, call, search, chosen, gui, helper, recorded>>

\* board.undo_move(x, y, z)
BoardUndoMove ==
    \E c \in PlayCells :
        /\ grid' = undo_move(grid, c[1], c[2], c[3])
        /\ op' = "undo_move"
        /\ ret' = PyNone
        /\ UNCHANGED <<winning_lines, last_winning_line, ai, call, search, chosen, gui, helper, recorded>>

\* rules.check_winner(board)
RulesCheckWinner ==
    /\ last_winning_line' = check_winner_line(grid)
    /\ recorded' = last_winning_line
    /\ ret' = check_winner(grid)
    /\ op' = "check_winner"
    /\ UNCHANGED <<grid, winning_lines, ai, call, search, chosen, gui, helper>>

NextRules == BoardMakeMove \/ BoardUndoMove \/ RulesCheckWinner

SpecRules == InitRules /\ [][NextRules]_vars

-----------------------------------------------------------------------------
(* The engines, driven by a caller that asks for a move and plays it *)

\* The board an engine is handed: the drawn board with the cells of a set of
\* holes emptied, or as it is (no move is available).
Carve(holes) == [c \in Cells |-> IF c \in holes THEN EMPTY_CELL ELSE DrawBoard[c]]

HoleOrder ==
    << <<2, 2, 2>>, <<0, 1, 2>>, <<1, 2, 0>>, <<2, 0, 1>>, <<1, 1, 1>>,
       <<0, 0, 1>>, <<3, 3, 0>>, <<0, 0, 3>> >>

HolePool == { HoleOrder[k] : k \in 1 .. Min(PoolSize, Len(HoleOrder)) }

EngineBoards ==
    { Carve(holes) : holes \in { h \in SUBSET HolePool :
                                    Cardinality(h) \in 0 .. MaxHoles } }

Versions == {1, 2, 3}

\* The engine objects of every class, max_depth as __init__ defaults it, on a
\* Board and, for the three classes AlphaBetaPruning.get_best_move adapts
\* (alpha_beta.py lines 97-124), on the _BoardAdapter of a Board.
EnginesOf(max_cache_sizes) ==
    { NewEngine("AlphaBetaAI", ad, 3, 0, 0, 0) : ad \in BOOLEAN }
    \cup { NewEngine("MinimaxAI", ad, 2, 0, c, 0) :
              ad \in BOOLEAN, c \in max_cache_sizes }
    \cup { NewEngine("AlphaBetaHeuristicAI", ad, 3, v, c, 0) :
              ad \in BOOLEAN, v \in Versions, c \in max_cache_sizes }
    \cup { NewEngine("MinimaxHeuristicAI", FALSE, 2, v, 0, 30000) : v \in Versions }
    \cup { NewEngine("MinimaxHeuristicReductionAI", FALSE, 2, v, 0, 30000) :
              v \in Versions }

Engines == EnginesOf({100000})

\* engine.get_best_move(board, player)
get_best_move(e, g, player) ==
    IF e.kind = "AlphaBetaPruning"
    THEN AlphaBetaPruning_get_best_move(g, e.algorithm, e.max_depth,
                                        e.heuristic_version)
    ELSE IF e.kind = "AlphaBetaAI"
    THEN AlphaBetaAI_get_best_move(g, e.ad, player, e.max_depth)
    ELSE IF e.kind = "MinimaxAI"
    THEN MinimaxAI_get_best_move(g, e.ad, player, e.max_cache_size,
                                 e.transposition_table)
    ELSE IF e.kind = "AlphaBetaHeuristicAI"
    THEN AlphaBetaHeuristicAI_get_best_move(g, e.ad, player, e.max_depth,
                                            e.heuristic_version, e.max_cache_size,
                                            e.transposition_table)
    ELSE IF e.kind = "MinimaxHeuristicAI"
    THEN MinimaxHeuristicAI_get_best_move(g, e.ad, player, e.max_depth,
                                          e.heuristic_version, e.max_nodes)
    ELSE MinimaxHeuristicReductionAI_get_best_move(g, e.ad, player, e.max_depth,
                                                   e.heuristic_version, e.max_nodes)

\* The players an engine is asked to move for: either one on a Board, player 1
\* through the adapter (alpha_beta.py lines 100, 110, 119); AlphaBetaPruning
\* is asked for the move of PLAYER_AI (gui/main_window.py lines 227-235).
CallPlayers(e) ==
    IF e.kind = "AlphaBetaPruning" THEN {PLAYER_AI}
    ELSE IF e.ad THEN {1} ELSE Players

Init ==
    /\ grid \in EngineBoards
    /\ winning_lines = _generate_all_winning_lines
    /\ last_winning_line = <<>>
    /\ op = "init"
    /\ ret = PyNone
    /\ ai \in Engines
    /\ call = NoCall
    /\ chosen = NoDepth
    /\ gui = NewWindow
    /\ helper = NoHelper
    /\ recorded = <<>>
    /\ search = NoSearch

\* The call has given R: the board and the engine as it left them, and the
\* record of the call.
GotBestMove(player, R) ==
    /\ grid' = R.S.g
    /\ ai' = [ai EXCEPT !.nodes_evaluated = R.S.n,
                        !.transposition_table = R.S.tt]
    /\ call' = [player |-> player, before |-> grid, move |-> R.move,
                raised |-> R.raised, inv |-> R.S.inv,
                peak |-> R.S.peak, writes |-> R.S.writes,
                skipped |-> R.S.skipped, tried |-> R.S.tried,
                caught |-> R.S.caught,
                had |-> Cardinality(DOMAIN ai.transposition_table),
                start |-> Cardinality(R.S.old), hits |-> R.S.hits,
                stale |-> R.S.stale, opaque |-> R.S.opaque]

\* move = engine.get_best_move(board, player), the players taking turns.  The
\* Board's check_winner is a pure read: it leaves the last_winning_line of the
\* caller's GameRules alone.
GetBestMove ==
    \E player \in CallPlayers(ai) :
        /\ op \in {"init", "make_move"}
        /\ player # call.player
        /\ GotBestMove(player, get_best_move(ai, grid, player))
        /\ op' = "get_best_move"
        /\ UNCHANGED <<winning_lines, last_winning_line, ret, search, chosen, gui, helper, recorded>>

\* "if move: x, y, z = move; board.make_move(x, y, z, player)": the caller
\* plays the move it was given (gui/main_window.py lines 233-235).
PlayMove ==
    /\ op = "get_best_move"
    /\ ~ call.raised
    /\ call.move # <<>>
    /\ grid' = make_move(grid, call.move[1], call.move[2], call.move[3], call.player)
    /\ op' = "make_move"
    /\ UNCHANGED <<winning_lines, last_winning_line, ret, ai, call, search, chosen, gui, helper, recorded>>

Next == GetBestMove \/ PlayMove

Spec == Init /\ [][Next]_vars

-----------------------------------------------------------------------------
(* The engines that keep a transposition table, also with a small capacity *)

CacheEngines ==
    { e \in EnginesOf({SmallCache, 100000}) :
        e.kind \in {"MinimaxAI", "AlphaBetaHeuristicAI"} }

InitCache ==
    /\ grid \in EngineBoards
    /\ winning_lines = _generate_all_winning_lines
    /\ last_winning_line = <<>>
    /\ op = "init"
    /\ ret = PyNone
    /\ ai \in CacheEngines
    /\ call = NoCall
    /\ chosen = NoDepth
    /\ gui = NewWindow
    /\ helper = NoHelper
    /\ recorded = <<>>
    /\ search = NoSearch

SpecCache == InitCache /\ [][Next]_vars

-----------------------------------------------------------------------------
(* AlphaBetaPruning objects, max_depth as __init__ defaults it, for the     *)
(* three algorithm names get_best_move knows and one it does not know       *)

Algorithms == {"AlphaBetaHeuristic", "AlphaBeta", "Minimax", "MinimaxHeuristic"}

InitFacade ==
    /\ grid \in EngineBoards
    /\ winning_lines = _generate_all_winning_lines
    /\ last_winning_line = <<>>
    /\ op = "init"
    /\ ret = PyNone
    /\ ai \in { [algorithm |-> a] @@ NewEngine("AlphaBetaPruning", FALSE, 3, v, 0, 0) :
                  a \in Algorithms, v \in Versions }
    /\ call = NoCall
    /\ chosen = NoDepth
    /\ gui = NewWindow
    /\ helper = NoHelper
    /\ recorded = <<>>
    /\ search = NoSearch

SpecFacade == InitFacade /\ [][Next]_vars

-----------------------------------------------------------------------------
(* The recursive searches of AlphaBetaAI and MinimaxAI, called directly on  *)
(* a Board by fresh engine objects, with the same arguments                 *)

\* The boards on which a line is held: a hole of the drawn board filled with
\* the mark that completes a line through it.
WonBoards ==
    { b \in { make_move(Carve({h}), h[1], h[2], h[3], p) :
                 h \in HolePool, p \in Players } : check_winner(b) \in Players }

InitSearch ==
    /\ winning_lines = _generate_all_winning_lines
    /\ grid \in EngineBoards \cup WonBoards
    /\ last_winning_line = <<>>
    /\ op = "init"
    /\ ret = PyNone
    /\ ai = NoEngine
    /\ call = NoCall
    /\ chosen = NoDepth
    /\ gui = NewWindow
    /\ helper = NoHelper
    /\ recorded = <<>>
    /\ search \in { [NoSearch EXCEPT !.depth = d, !.is_max = m, !.player = p] :
                       d \in 0 .. MaxSearchDepth, m \in BOOLEAN, p \in Players }

\* AlphaBetaAI()._alphabeta(board, depth, -sys.maxsize, sys.maxsize, is_max, player)
AlphaBetaSearch ==
    /\ search.alphabeta = PyNone
    /\ LET R == AlphaBetaAI_alphabeta(NewSearch(grid, EmptyTable), FALSE,
                                      search.depth, 0 - sys_maxsize, sys_maxsize,
                                      search.is_max, search.player)
       IN  /\ grid' = R.S.g
           /\ search' = [search EXCEPT !.alphabeta = R.score]
    /\ op' = "_alphabeta"
    /\ UNCHANGED <<winning_lines, last_winning_line, ret, ai, call, chosen, gui, helper, recorded>>

\* MinimaxAI()._minimax(board, depth, is_max, player), the table empty
MinimaxSearch ==
    /\ search.minimax = PyNone
    /\ LET R == MinimaxAI_minimax(NewSearch(grid, EmptyTable), FALSE,
                                  search.depth, search.is_max, search.player,
                                  100000)
       IN  /\ grid' = R.S.g
           /\ search' = [search EXCEPT !.minimax = R.score]
    /\ op' = "_minimax"
    /\ UNCHANGED <<winning_lines, last_winning_line, ret, ai, call, chosen, gui, helper, recorded>>

NextSearch == AlphaBetaSearch \/ MinimaxSearch

SpecSearch == InitSearch /\ [][NextSearch]_vars

-----------------------------------------------------------------------------
(* MinimaxHeuristicAI and MinimaxHeuristicReductionAI objects on a Board,   *)
(* max_nodes as __init__ sets it or lowered by the caller: get_best_move,   *)
(* and _minimax called directly on the engine as get_best_move left it      *)

HeuristicKinds == {"MinimaxHeuristicAI", "MinimaxHeuristicReductionAI"}

HeuristicEngines ==
    { NewEngine(kind, FALSE, 2, v, 0, max_nodes) :
        kind \in HeuristicKinds, v \in Versions, max_nodes \in {SmallBudget, 30000} }

\* The holes of the boards: (0, 1, 2) and (1, 2, 0) complete a line for
\* player 2, (2, 2, 2) for player 1, (0, 0, 1) for neither; (0, 0, 1) comes
\* first in the canonical order.
HeuristicHoles == { <<0, 0, 1>>, <<0, 1, 2>>, <<1, 2, 0>>, <<2, 2, 2>> }

HeuristicBoards ==
    { Carve(holes) : holes \in { h \in SUBSET HeuristicHoles :
                                    Cardinality(h) \in 0 .. MaxHoles } }

InitHeuristic ==
    /\ winning_lines = _generate_all_winning_lines
    /\ grid \in HeuristicBoards
    /\ last_winning_line = <<>>
    /\ op = "init"
    /\ ret = PyNone
    /\ ai \in HeuristicEngines
    /\ call = NoCall
    /\ chosen = NoDepth
    /\ gui = NewWindow
    /\ helper = NoHelper
    /\ recorded = <<>>
    /\ search = NoSearch

\* e._minimax(board, depth, is_max, player), S being the board and the
\* nodes_evaluated of e at the call
_minimax(e, S, depth, is_max, player) ==
    IF e.kind = "MinimaxHeuristicAI"
    THEN MinimaxHeuristicAI_minimax(S, FALSE, depth, is_max, player,
                                    e.heuristic_version, e.max_nodes)
    ELSE MinimaxHeuristicReductionAI_minimax(S, FALSE, depth, is_max, player,
                                             e.heuristic_version, e.max_nodes)

\* The call has given R.
MinimaxReturned(depth, is_max, player, R) ==
    /\ grid' = R.S.g
    /\ ai' = [ai EXCEPT !.nodes_evaluated = R.S.n]
    /\ search' = [NoSearch EXCEPT !.depth = depth, !.is_max = is_max,
                                  !.player = player, !.heuristic = R.score,
                                  !.node = grid, !.n = ai.nodes_evaluated,
                                  !.raised = R.S.exc]

\* score = ai._minimax(board, depth, is_max, player), once
HeuristicMinimax ==
    \E depth \in 0 .. MaxSearchDepth, is_max \in BOOLEAN, player \in Players :
        /\ op # "_minimax"
        /\ MinimaxReturned(depth, is_max, player,
                           _minimax(ai, [NewSearch(grid, EmptyTable)
                                            EXCEPT !.n = ai.nodes_evaluated],
                                    depth, is_max, player))
        /\ op' = "_minimax"
        /\ UNCHANGED <<winning_lines, last_winning_line, ret, call, chosen, gui, helper, recorded>>

NextHeuristic == GetBestMove \/ HeuristicMinimax

SpecHeuristic == InitHeuristic /\ [][NextHeuristic]_vars

-----------------------------------------------------------------------------
(* MinimaxHeuristicReductionAI._apply_reductions, called directly on lists  *)
(* of scored moves                                                          *)

\* The scores the moves are given: above, at and below half of the best.
ReductionScores == {0 - 2, 0, 2}

\* The lists of (score, move): n cells in the canonical order, as
\* _get_ordered_moves appends them, each with any of the scores.  The cells
\* are every third one, (0, 0, 0), (0, 0, 3), (0, 1, 2), ...: some are
\* symmetric to one another, and the first 8 of them have 5 signatures.
ScoredMoves(score) == [i \in 1 .. Len(score) |-> <<score[i], AllCells[3 * i - 2]>>]

InitReductions ==
    /\ winning_lines = _generate_all_winning_lines
    /\ grid = EmptyBoard
    /\ last_winning_line = <<>>
    /\ op = "init"
    /\ ret = PyNone
    /\ ai = NoEngine
    /\ call = NoCall
    /\ chosen = NoDepth
    /\ gui = NewWindow
    /\ search = NoSearch
    /\ \E n \in 0 .. MaxScored :
           \E score \in [1 .. n -> ReductionScores] :
               helper = [NoHelper EXCEPT !.move_scores = ScoredMoves(score)]
    /\ recorded = <<>>

\* reduced = self._apply_reductions(move_scores)
ApplyReductions ==
    /\ op = "init"
    /\ helper' = [helper EXCEPT !.reduced =
                      MinimaxHeuristicReductionAI_apply_reductions(helper.move_scores)]
    /\ op' = "_apply_reductions"
    /\ UNCHANGED <<grid, winning_lines, last_winning_line, ret, ai, call, search, chosen, gui, recorded>>

SpecReductions == InitReductions /\ [][ApplyReductions]_vars

-----------------------------------------------------------------------------
(* The evaluators of HeuristicEvaluator, called directly on a Board *)

\* The boards evaluated: the boards of the engines, the boards on which a
\* line is held, and the empty board with a mark of each player on two of
\* the cells the caller plays on.
EvaluatorBoards ==
    EngineBoards \cup WonBoards
        \cup { make_move(make_move(EmptyBoard, a[1], a[2], a[3], PLAYER_HUMAN),
                         b[1], b[2], b[3], PLAYER_AI) : a, b \in PlayCells }

InitEvaluator ==
    /\ winning_lines = _generate_all_winning_lines
    /\ grid \in EvaluatorBoards
    /\ last_winning_line = <<>>
    /\ op = "init"
    /\ ret = PyNone
    /\ ai = NoEngine
    /\ call = NoCall
    /\ chosen = NoDepth
    /\ gui = NewWindow
    /\ search = NoSearch
    /\ helper = NoHelper
    /\ recorded = <<>>

\* score = HeuristicEvaluator.evaluate_v1_basic(board, player), or
\* evaluate_v2_positional, or evaluate_v3_aggressive: they read the board.
EvaluateBoard ==
    \E player \in Players, version \in Versions :
        /\ op = "init"
        /\ helper' = [helper EXCEPT !.board = grid, !.player = player,
                                    !.version = version,
                                    !.score = HeuristicScore(grid, player, version)]
        /\ op' = "evaluate"
        /\ UNCHANGED <<grid, winning_lines, last_winning_line, ret, ai, call, search, chosen, gui, recorded>>

SpecEvaluator == InitEvaluator /\ [][EvaluateBoard]_vars

-----------------------------------------------------------------------------
(* AlphaBetaHeuristicAI with and without its transposition table: the same *)
(* get_best_move call on the same board, once as the class is written and  *)
(* once with max_cache_size 0, when nothing is ever stored                 *)

\* The configured depths: 3 is the default of __init__, get_best_move
\* searches to min(5, max_depth) on these boards (line 36).
CompareDepths == {3, 4, 5}

CompareEngines ==
    { NewEngine("AlphaBetaHeuristicAI", FALSE, d, v, 100000, 0) :
        d \in CompareDepths, v \in Versions }

ComparePool ==
    { <<0, 0, 3>>, <<2, 3, 3>>, <<3, 0, 2>>, <<3, 3, 0>>, <<3, 3, 2>>, <<1, 1, 0>> }

\* The drawn board with CompareHoles cells of the pool emptied
CompareBoards ==
    { Carve(holes) : holes \in { h \in SUBSET ComparePool :
                                    Cardinality(h) = CompareHoles } }

InitCompare ==
    /\ winning_lines = _generate_all_winning_lines
    /\ grid \in CompareBoards
    /\ last_winning_line = <<>>
    /\ op = "init"
    /\ ret = PyNone
    /\ ai \in CompareEngines
    /\ call = NoCall
    /\ chosen = NoDepth
    /\ gui = NewWindow
    /\ helper = NoHelper
    /\ recorded = <<>>
    /\ search = NoSearch

\* The call has given R and, on an engine that stores nothing, U.
GotBothMoves(player, R, U) ==
    /\ GotBestMove(player, R)
    /\ helper' = [helper EXCEPT !.compared = TRUE,
                                !.plain = IF U.raised THEN <<PyNone>> ELSE U.move]

\* engine.get_best_move(board, player), and the same call on an engine whose
\* max_cache_size is 0
CompareCache ==
    \E player \in Players :
        /\ op = "init"
        /\ GotBothMoves(player, get_best_move(ai, grid, player),
                        get_best_move([ai EXCEPT !.max_cache_size = 0], grid, player))
        /\ op' = "get_best_move"
        /\ UNCHANGED <<winning_lines, last_winning_line, ret, search, chosen, gui, recorded>>

SpecCompare == InitCompare /\ [][CompareCache]_vars

-----------------------------------------------------------------------------
(* The search depth get_best_move chooses from the number of available     *)
(* moves, for engines of every class and every configured max_depth        *)

Kinds ==
    {"AlphaBetaAI", "MinimaxAI", "AlphaBetaHeuristicAI", "MinimaxHeuristicAI",
     "MinimaxHeuristicReductionAI"}

DepthEngines ==
    { NewEngine(kind, FALSE, max_depth, 2, 100000, 30000) :
        kind \in Kinds, max_depth \in 1 .. MaxConfiguredDepth }

InitDepth ==
    /\ grid = EmptyBoard
    /\ winning_lines = _generate_all_winning_lines
    /\ last_winning_line = <<>>
    /\ op = "init"
    /\ ret = PyNone
    /\ ai \in DepthEngines
    /\ call = NoCall
    /\ search = NoSearch
    /\ chosen = NoDepth
    /\ gui = NewWindow
    /\ helper = NoHelper
    /\ recorded = <<>>

\* "num_moves = len(available_moves)" and the if/elif chain on it that sets
\* depth, for a board with num_moves EMPTY cells (get_best_move returns
\* before it when there is none).  The engine is called on two boards, one
\* after the other.
ChooseDepth ==
    \E num_moves \in 1 .. BOARD_SIZE * BOARD_SIZE * BOARD_SIZE :
        /\ chosen.prev_num_moves = 0
        /\ chosen' =
              [num_moves |-> num_moves,
               depth |->
                   IF ai.kind = "AlphaBetaAI"
                   THEN AlphaBetaAI_depth(num_moves, ai.max_depth)
                   ELSE IF ai.kind = "MinimaxAI"
                   THEN MinimaxAI_depth(num_moves)
                   ELSE IF ai.kind = "AlphaBetaHeuristicAI"
                   THEN AlphaBetaHeuristicAI_depth(num_moves, ai.max_depth)
                   ELSE IF ai.kind = "MinimaxHeuristicAI"
                   THEN MinimaxHeuristicAI_depth(num_moves, ai.max_depth)
                   ELSE MinimaxHeuristicReductionAI_depth(num_moves, ai.max_depth),
               prev_num_moves |-> chosen.num_moves,
               prev_depth |-> chosen.depth]
        /\ op' = "depth"
        /\ UNCHANGED <<grid, winning_lines, last_winning_line, ret, ai, call, search, gui, helper, recorded>>

SpecDepth == InitDepth /\ [][ChooseDepth]_vars

-----------------------------------------------------------------------------
(* gui/main_window.py: MainWindow after _on_start_from_home, the handlers   *)
(* of the main thread (each runs to its end, as the event loop runs them)   *)
(* and the AI worker threads.  A worker is a record: pc, where it stands    *)
(* ("sleep", "search": inside get_best_move, "apply": holding the move);    *)
(* seen, the board as its search found it and then left it; move.  The      *)
(* variables op, ret and call, which record the calls of a caller of the    *)
(* engine, stay as they are.                                                *)

ClickCells == { PlayOrder(k) : k \in 1 .. MaxClickCells }

\* seq without its i-th element: the thread has ended.
Without(seq, i) == SubSeq(seq, 1, i - 1) \o SubSeq(seq, i + 1, Len(seq))

\* self.board = Board(); self.ai = ai_class(...) for the class of the module
\* chosen on the home page (lines 93-145).
InitGui ==
    /\ grid = EmptyBoard
    /\ winning_lines = _generate_all_winning_lines
    /\ last_winning_line = <<>>
    /\ op = "init"
    /\ ret = PyNone
    /\ ai \in { e \in Engines : ~ e.ad }
    /\ call = NoCall
    /\ chosen = NoDepth
    /\ gui = NewWindow
    /\ helper = NoHelper
    /\ recorded = <<>>
    /\ search = NoSearch

\* _on_cell_click(x, y, z) (lines 183-218); it returns at once unless the
\* guard holds and make_move succeeds.  _handle_game_over sets game_over.
OnCellClick ==
    \E c \in ClickCells :
        /\ ~ gui.game_over
        /\ ~ gui.ai_thinking
        /\ gui.current_player = PLAYER_HUMAN
        /\ make_move_ok(grid, c[1], c[2], c[3])
        /\ Len(gui.workers) + Len(gui.after) < MaxWorkers
        /\ gui.move_count < MaxMoveCount
        /\ grid' = make_move(grid, c[1], c[2], c[3], PLAYER_HUMAN)
        /\ last_winning_line' = check_winner_line(grid')
        /\ recorded' = last_winning_line
        /\ gui' = IF check_winner(grid') # PyNone
                  THEN [gui EXCEPT !.move_count = @ + 1, !.game_over = TRUE]
                  ELSE [gui EXCEPT !.move_count = @ + 1,
                                   !.current_player = PLAYER_AI,
                                   !.ai_thinking = TRUE,
                                   !.workers = Append(@, [pc |-> "sleep", seen |-> grid',
                                                          move |-> <<>>])]
        /\ UNCHANGED <<winning_lines, op, ret, ai, call, search, chosen, helper>>

\* _ai_make_move up to the call "self.ai.get_best_move(self.board)" (lines
\* 222-231).  Only MinimaxHeuristicReductionAI.get_best_move has a default
\* for player; the call of any other class raises TypeError, the call under
\* "except Exception" raises it again and the thread ends.
WorkerCall ==
    \E i \in 1 .. Len(gui.workers) :
        /\ gui.workers[i].pc = "sleep"
        /\ gui' = IF ai.kind = "MinimaxHeuristicReductionAI"
                  THEN [gui EXCEPT !.workers[i].pc = "search",
                                   !.workers[i].seen = grid]
                  ELSE [gui EXCEPT !.workers = Without(@, i)]
        /\ UNCHANGED <<grid, winning_lines, last_winning_line, op, ret, ai, call, search, chosen, helper, recorded>>

\* get_best_move has returned R or, with R.raised, has let an exception out
\* of the handler of line 230, which ends the thread.
WorkerGot(i, R) ==
    /\ grid' = R.S.g
    /\ ai' = [ai EXCEPT !.nodes_evaluated = R.S.n]
    /\ gui' = IF R.raised
              THEN [gui EXCEPT !.workers = Without(@, i)]
              ELSE [gui EXCEPT !.workers[i] = [pc |-> "apply", seen |-> R.S.g,
                                               move |-> R.move]]

\* "try: move = self.ai.get_best_move(self.board) ... except Exception: move
\* = self.ai.get_best_move(self.board)" (lines 225-231), R being what the
\* first call gave
WorkerTried(i, R) ==
    IF R.raised THEN WorkerGot(i, get_best_move(ai, R.S.g, 2)) ELSE WorkerGot(i, R)

\* get_best_move returns, player being 2 by default.  The search runs on the
\* board while the main thread may write it; it is taken to have run at one
\* moment, this one.
WorkerReturn ==
    \E i \in 1 .. Len(gui.workers) :
        /\ gui.workers[i].pc = "search"
        /\ WorkerTried(i, get_best_move(ai, grid, 2))
        /\ UNCHANGED <<winning_lines, last_winning_line, op, ret, call, search, chosen, helper, recorded>>

\* "if move: x, y, z = move; self.board.make_move(x, y, z, PLAYER_AI);
\* self.move_count += 1; self.root.after(0, ...)" (lines 233-239)
WorkerApply ==
    \E i \in 1 .. Len(gui.workers) :
        /\ gui.workers[i].pc = "apply"
        /\ LET move == gui.workers[i].move
           IN  IF move = <<>>
               THEN /\ grid' = grid
                    /\ gui' = [gui EXCEPT !.workers = Without(@, i)]
               ELSE /\ grid' = make_move(grid, move[1], move[2], move[3], PLAYER_AI)
                    /\ gui' = [gui EXCEPT !.workers = Without(@, i),
                                          !.move_count = @ + 1,
                                          !.after = Append(@, move)]
        /\ UNCHANGED <<winning_lines, last_winning_line, op, ret, ai, call, search, chosen, helper, recorded>>

\* _after_ai_move(x, y, z), run by the main thread (lines 241-263)
AfterAiMove ==
    /\ gui.after # <<>>
    /\ last_winning_line' = check_winner_line(grid)
    /\ recorded' = last_winning_line
    /\ gui' = IF check_winner(grid) # PyNone
              THEN [gui EXCEPT !.after = Tail(@), !.game_over = TRUE]
              ELSE [gui EXCEPT !.after = Tail(@),
                               !.current_player = PLAYER_HUMAN,
                               !.ai_thinking = FALSE]
    /\ UNCHANGED <<grid, winning_lines, op, ret, ai, call, search, chosen, helper>>

\* _on_new_game (lines 291-309): board.reset() and the flags
OnNewGame ==
    /\ grid' = EmptyBoard
    /\ gui' = [gui EXCEPT !.current_player = PLAYER_HUMAN, !.game_over = FALSE,
                          !.ai_thinking = FALSE, !.move_count = 0]
    /\ UNCHANGED <<winning_lines, last_winning_line, op, ret, ai, call, search, chosen, helper, recorded>>

NextGui ==
    OnCellClick \/ WorkerCall \/ WorkerReturn \/ WorkerApply \/ AfterAiMove
        \/ OnNewGame

SpecGui == InitGui /\ [][NextGui]_vars

\* A worker is inside get_best_move.
Searching == \E i \in 1 .. Len(gui.workers) : gui.workers[i].pc = "search"

\* The same window when every started thread gets to run and the event loop
\* runs every callback queued with root.after: a worker that can take its
\* next step takes it (the thread is started at line 218 and nothing blocks
\* it), get_best_move comes to an end (every search is bounded in depth: a
\* worker leaves "search" by WorkerReturn and by nothing else, so this is
\* weak fairness of WorkerReturn), and _after_ai_move runs once it is queued
\* (line 239).  Clicks and New Game are the user's: nothing makes them
\* happen.
SpecGuiFair ==
    /\ SpecGui
    /\ WF_vars(WorkerCall)
    /\ []<>(~ Searching)
    /\ WF_vars(WorkerApply)
    /\ WF_vars(AfterAiMove)

-----------------------------------------------------------------------------
(* Claims about the catalog and the win detection, under SpecRules *)

LineSet(line) == { line[i] : i \in 1 .. Len(line) }

\* The line is fully occupied by one player.
HeldBy(g, line, player) == \A i \in 1 .. Len(line) : g[line[i]] = player

HeldLines(g) ==
    { k \in 1 .. Len(winning_lines) :
        \E player \in Players : HeldBy(g, winning_lines[k], player) }

FirstHeld(g) == CHOOSE k \in HeldLines(g) : \A j \in HeldLines(g) : k <= j

\* C7: the catalog built by GameRules holds exactly 76 lines, each of 4
\* distinct in-range coordinates, and no two lines are the same set of
\* coordinates.
C7_CatalogWellFormed ==
    /\ count_winning_lines = 76
    /\ \A k \in 1 .. Len(winning_lines) :
          /\ Len(winning_lines[k]) = 4
          /\ Cardinality(LineSet(winning_lines[k])) = 4
          /\ LineSet(winning_lines[k]) \subseteq Cells
    /\ Cardinality({ LineSet(winning_lines[k]) : k \in 1 .. Len(winning_lines) })
          = Len(winning_lines)

\* The catalog has been built and a scan over its 76 lines has found one held.
C7_Witness ==
    /\ op = "check_winner"
    /\ ret \in Players
    /\ Len(winning_lines) = 76
    /\ \E k \in 1 .. Len(winning_lines) : last_winning_line = winning_lines[k]

\* C8: check_winner returns None on an empty board, and 0 (draw) on a full
\* board on which no line is fully occupied by one player.
C8_EmptyAndDraw ==
    op = "check_winner" =>
        /\ grid = EmptyBoard => ret = PyNone
        /\ (is_full(grid) /\ HeldLines(grid) = {}) => ret = 0

\* check_winner has run on a full board without a held line.
C8_Witness ==
    /\ op = "check_winner"
    /\ is_full(grid)
    /\ HeldLines(grid) = {}
    /\ ret = 0

\* C9: check_winner returns player P exactly when the first held line in
\* catalog order is held by P, 0 only when no line is held and no cell is
\* EMPTY, None only when no line is held and some cell is EMPTY.
C9_FirstLineDecides ==
    op = "check_winner" =>
        /\ \A player \in Players :
              ret = player <=>
                  /\ HeldLines(grid) # {}
                  /\ HeldBy(grid, winning_lines[FirstHeld(grid)], player)
        /\ ret = 0 => (HeldLines(grid) = {} /\ is_full(grid))
        /\ ret = PyNone => (HeldLines(grid) = {} /\ ~ is_full(grid))
        /\ ret \in Players \cup {0, PyNone}

\* check_winner has run on a board with lines held by both players, and
\* returned the holder of the first one.
C9_Witness ==
    /\ op = "check_winner"
    /\ \E j, k \in HeldLines(grid) :
          /\ HeldBy(grid, winning_lines[j], PLAYER_HUMAN)
          /\ HeldBy(grid, winning_lines[k], PLAYER_AI)
    /\ HeldBy(grid, winning_lines[FirstHeld(grid)], ret)

-----------------------------------------------------------------------------
(* Claims about the engines *)

\* The other player.
Other(player) == IF player = PLAYER_HUMAN THEN PLAYER_AI ELSE PLAYER_HUMAN

\* The EMPTY cells of g where a mark of who completes a line of who.
WinningCells(g, who) ==
    { c \in Cells :
        /\ g[c] = EMPTY_CELL
        /\ \E k \in 1 .. Len(winning_lines) :
              HeldBy([g EXCEPT ![c] = who], winning_lines[k], who) }

\* get_best_move has just been called on a Board (not through the adapter)
\* on which no line was held yet.
EngineCalled ==
    /\ op = "get_best_move"
    /\ ~ ai.ad
    /\ HeldLines(call.before) = {}

\* C1: when the mover has a move that completes a line, get_best_move of
\* every engine returns a coordinate that completes a line for the mover.
C1_WinningMoveReturned ==
    (EngineCalled /\ WinningCells(call.before, call.player) # {})
        => /\ ~ call.raised
           /\ call.move \in WinningCells(call.before, call.player)

\* C2: when the mover cannot win at once and the opponent has exactly one
\* winning move, get_best_move of every engine returns exactly that cell.
C2_ForcedBlockReturned ==
    (/\ EngineCalled
     /\ WinningCells(call.before, call.player) = {}
     /\ Cardinality(WinningCells(call.before, Other(call.player))) = 1)
        => /\ ~ call.raised
           /\ call.move \in WinningCells(call.before, Other(call.player))

\* C3: when the mover cannot win at once and the opponent has more than one
\* winning move, the move get_best_move returns is one of those cells.
C3_BlockingSetOnly ==
    (/\ EngineCalled
     /\ WinningCells(call.before, call.player) = {}
     /\ Cardinality(WinningCells(call.before, Other(call.player))) > 1)
        => /\ ~ call.raised
           /\ call.move \in WinningCells(call.before, Other(call.player))

\* C4: when get_best_move returns, all 64 cells hold what they held before
\* the call.
C4_BoardRestored ==
    (EngineCalled /\ ~ call.raised) => grid = call.before

\* C5: during a get_best_move call, on a Board or through its adapter, every
\* make_move lands on an in-range EMPTY cell and every undo_move on the cell
\* of the last make_move not yet undone.
C5_NoInvalidMove ==
    op = "get_best_move" => ~ call.inv

\* C6: for the same board, depth and player, AlphaBetaAI._alphabeta with the
\* full window and MinimaxAI._minimax return the same score.
C6_SameScore ==
    (search.alphabeta # PyNone /\ search.minimax # PyNone)
        => search.alphabeta = search.minimax

\* C10: the transposition table never holds more than max_cache_size
\* entries, during or after a get_best_move call; nothing is stored once it
\* is full, and every store adds an entry that stays (none is overwritten,
\* none removed).
C10_CacheBounded ==
    /\ Cardinality(DOMAIN ai.transposition_table) <= ai.max_cache_size
    /\ call.peak <= ai.max_cache_size
    /\ op = "get_best_move" =>
          /\ call.writes = Cardinality(DOMAIN ai.transposition_table)
          /\ call.peak = Cardinality(DOMAIN ai.transposition_table)

\* A search has filled the table to its capacity and has then gone on,
\* computing results it did not store.
C10_Witness ==
    /\ op = "get_best_move"
    /\ ai.kind \in {"MinimaxAI", "AlphaBetaHeuristicAI"}
    /\ ai.max_cache_size = SmallCache
    /\ Cardinality(DOMAIN ai.transposition_table) = ai.max_cache_size
    /\ call.skipped > 0

-----------------------------------------------------------------------------
(* Claims about the move get_best_move returns, under Spec *)

\* The index of the first candidate of a searched list with the highest score.
FirstBest(tried) ==
    CHOOSE i \in 1 .. Len(tried) :
        \A j \in 1 .. Len(tried) :
            /\ tried[j][2] <= tried[i][2]
            /\ j < i => tried[j][2] < tried[i][2]

\* The candidate as get_best_move hands it back: MinimaxHeuristicReductionAI
\* converts its (z, x, y) to (x, y, z) on return.
AsReturned(kind, move) ==
    IF kind = "MinimaxHeuristicReductionAI" THEN xyz(move) ELSE move

\* C11: when get_best_move has searched its candidates, it returns the
\* candidate with the best score the recursive search gave, the first of
\* them in the order searched when several share it, also when that score
\* is one of a lost position.
C11_BestTrackedReturned ==
    (EngineCalled /\ ~ call.raised /\ call.tried # <<>>)
        => call.move = AsReturned(ai.kind, call.tried[FirstBest(call.tried)][1])

-----------------------------------------------------------------------------
(* Claims about the depth get_best_move chooses, under SpecDepth *)

\* C12: of two boards, the one with more EMPTY cells is never searched
\* deeper than the other, whatever max_depth the engine is configured with.
C12_DepthMonotone ==
    chosen.prev_num_moves > chosen.num_moves
        => chosen.prev_depth <= chosen.depth

\* C13: the depth get_best_move chooses never exceeds the configured
\* max_depth, whatever the number of available moves.
C13_DepthCapped ==
    op = "depth" => chosen.depth <= ai.max_depth

-----------------------------------------------------------------------------
(* Claims about AlphaBetaPruning.get_best_move, under SpecFacade *)

\* C14: get_best_move returns None exactly when the board it is handed has
\* no EMPTY cell, and then it has not raised and has left the board as it
\* was; on a board with an EMPTY cell it returns a coordinate.
C14_NoneOnlyWhenFull ==
    op = "get_best_move"
        => /\ ~ call.raised
           /\ call.move = <<>> <=> get_available_moves(call.before) = <<>>
           /\ call.move = <<>> => grid = call.before

\* C15: when the selected algorithm has failed or its name is not known,
\* get_best_move does not raise, returns a cell that was EMPTY when it was
\* called, and leaves the board as it was.
C15_FallbackSafe ==
    (/\ op = "get_best_move"
     /\ call.caught \/ ai.algorithm \notin {"AlphaBetaHeuristic", "AlphaBeta", "Minimax"}
     /\ get_available_moves(call.before) # <<>>)
        => /\ ~ call.raised
           /\ call.move # <<>>
           /\ call.before[call.move] = EMPTY_CELL
           /\ grid = call.before

-----------------------------------------------------------------------------
(* Claims about the presentation layer, under SpecGui *)

\* C16: while a worker's get_best_move is in progress, and until the worker
\* has applied the move it was given, no other thread writes the board: it
\* is as the search found it and then left it.
C16_BoardOwnedBySearch ==
    \A i \in 1 .. Len(gui.workers) :
        gui.workers[i].pc \in {"search", "apply"} => grid = gui.workers[i].seen

-----------------------------------------------------------------------------
(* The scores of the terminal nodes of the recursive search *)

\* The board is full and no line is held: check_winner gives 0.
DrawnNode == is_full(grid) /\ check_winner(grid) = 0

\* C17: in the recursive search a node with no complete line and a full
\* board is scored 0, whatever the remaining depth: never as a loss or a win.
C17_DrawScoredZero ==
    DrawnNode => /\ search.alphabeta \in {PyNone, 0}
                 /\ search.minimax \in {PyNone, 0}

\* What the node of a decided board is to score for the player searched for.
DecidedScore(winner, player, depth) ==
    IF winner = player THEN 1000 + depth ELSE (0 - 1000) - depth

\* C18: in the recursive search a node where check_winner reports the mover
\* is scored 1000 + remaining depth, and a node where it reports the opponent
\* is scored -1000 - remaining depth, in every engine.
C18_DecidedNodeScore ==
    check_winner(grid) \in Players =>
        /\ search.alphabeta \in
               {PyNone, DecidedScore(check_winner(grid), search.player, search.depth)}
        /\ search.minimax \in
               {PyNone, DecidedScore(check_winner(grid), search.player, search.depth)}

-----------------------------------------------------------------------------
(* Claims about the recursion of the heuristic minimax engines, under       *)
(* SpecHeuristic                                                            *)

\* The cell and the mark of the make_move a node does for a move of
\* get_available_moves (minimax_heuristic.py lines 110-111, 124-125;
\* minimax_heuristic_reduction.py lines 175-176, 187-190).
ChildCell(e, move) == IF e.kind = "MinimaxHeuristicAI" THEN move ELSE xyz(move)

ChildMark(e, is_max, player) ==
    IF is_max THEN player
    ELSE IF e.kind = "MinimaxHeuristicAI" THEN 0 - player ELSE 3 - player

\* The value _minimax gives for the child the node makes with a move.
ChildValue(e, g, move, depth, is_max, player) ==
    _minimax(e, EMake(NewSearch(g, EmptyTable), FALSE, ChildCell(e, move)[1],
                      ChildCell(e, move)[2], ChildCell(e, move)[3],
                      ChildMark(e, is_max, player)),
             depth - 1, ~ is_max, player).score

\* The values of all the children of a node.
ChildValues(e, g, depth, is_max, player) ==
    { ChildValue(e, g, move, depth, is_max, player) :
        move \in { get_available_moves(g)[i] :
                     i \in 1 .. Len(get_available_moves(g)) } }

Greatest(values) == CHOOSE v \in values : \A w \in values : w <= v
Least(values) == CHOOSE v \in values : \A w \in values : v <= w

\* _minimax was called on a node that has children, and has returned without
\* the node budget being exceeded.
InteriorNodeScored ==
    /\ op = "_minimax"
    /\ ai.kind \in HeuristicKinds
    /\ ~ search.raised
    /\ ai.nodes_evaluated <= ai.max_nodes
    /\ search.depth > 0
    /\ check_winner(search.node) = PyNone
    /\ ~ is_full(search.node)

\* C19: in the heuristic minimax engines the value returned at a maximizing
\* node is the maximum of the values of all its children, and at a
\* minimizing node the minimum: the early exits of the loops do not change
\* the value returned.
C19_NodeValueIsExtremum ==
    InteriorNodeScored =>
        search.heuristic =
            IF search.is_max
            THEN Greatest(ChildValues(ai, search.node, search.depth, TRUE, search.player))
            ELSE Least(ChildValues(ai, search.node, search.depth, FALSE, search.player))

\* _minimax was called on an engine whose node budget was exceeded.
CalledOverBudget == op = "_minimax" /\ ai.kind \in HeuristicKinds /\ search.n > ai.max_nodes

\* C20: once nodes_evaluated > max_nodes, a call of _minimax returns the
\* static evaluation of the board it is given, for the player searched for,
\* counts one node and leaves the board as it is; and a get_best_move call
\* during which the budget was exceeded returns a move, no exception.
C20_BudgetStopsSearch ==
    /\ CalledOverBudget =>
           /\ ~ search.raised
           /\ search.heuristic =
                  Evaluate(NewSearch(search.node, EmptyTable), FALSE, search.player,
                           ai.heuristic_version).score
           /\ grid = search.node
           /\ ai.nodes_evaluated = search.n + 1
    /\ (/\ op = "get_best_move"
        /\ ai.kind \in HeuristicKinds
        /\ ai.nodes_evaluated > ai.max_nodes) =>
           /\ ~ call.raised
           /\ call.move # <<>>

-----------------------------------------------------------------------------
(* Claims about the move reduction, under SpecReductions *)

\* The elements of a list.
Elements(items) == { items[i] : i \in 1 .. Len(items) }

\* C21: for any list of n scored moves, whatever the best score,
\* _apply_reductions returns at least min(3, n) of them and at most 8, all
\* taken from the list.
C21_ReductionKeepsThree ==
    op = "_apply_reductions" =>
        /\ Len(helper.reduced) >= Min(3, Len(helper.move_scores))
        /\ Len(helper.reduced) <= 8
        /\ Elements(helper.reduced) \subseteq Elements(helper.move_scores)

\* A list of more than 8 moves whose best score is negative has been
\* reduced: more than 4 moves survive the symmetry filter, none of them the
\* threshold, and the 3 best come back.
C21_Witness ==
    /\ op = "_apply_reductions"
    /\ Len(helper.move_scores) > 8
    /\ \A i \in 1 .. Len(helper.move_scores) : helper.move_scores[i][1] < 0
    /\ Len(helper.reduced) = 3

-----------------------------------------------------------------------------
(* Claims about the evaluators, under SpecEvaluator *)

\* The other player of the game.
OtherPlayer(player) == PLAYER_HUMAN + PLAYER_AI - player

\* What a line is to contribute to evaluate_v1_basic: +m^2 with m >= 1 marks
\* of the mover and none of the opponent, -o^2 with o >= 1 marks of the
\* opponent and none of the mover, 0 otherwise.
BasicTerm(g, line, player) ==
    LET m == CountIn(g, line, player)
        o == CountIn(g, line, OtherPlayer(player))
    IN  IF m >= 1 /\ o = 0 THEN m * m
        ELSE IF o >= 1 /\ m = 0 THEN 0 - o * o
        ELSE 0

\* C22: for every board and either player as mover, evaluate_v1_basic
\* returns the sum over the 76 lines of +m^2 for a line with m >= 1 mover
\* marks and no opponent mark and -o^2 for a line with o >= 1 opponent marks
\* and no mover mark, the opponent being the other player of the game.
C22_BasicCountsBothPlayers ==
    (op = "evaluate" /\ helper.version = 1) =>
        helper.score =
            SumRange(LAMBDA k : BasicTerm(grid, winning_lines[k], helper.player),
                     1, Len(winning_lines))

\* How many lines hold exactly 3 marks of a player and 1 empty cell.
OpenThrees(g, player) ==
    Cardinality({ k \in 1 .. Len(winning_lines) :
                    /\ CountIn(g, winning_lines[k], player) = 3
                    /\ CountIn(g, winning_lines[k], EMPTY_CELL) = 1 })

\* C23: for every board and player, evaluate_v3_aggressive is
\* evaluate_v2_positional plus 100 for each line with exactly 3 mover marks
\* and 1 empty cell, minus 150 for each line with exactly 3 opponent marks
\* and 1 empty cell; the call leaves the board as it was.
C23_AggressiveAddsThreats ==
    (op = "evaluate" /\ helper.version = 3) =>
        /\ helper.score =
               evaluate_v2_positional(helper.board, helper.player)
                   + 100 * OpenThrees(helper.board, helper.player)
                   - 150 * OpenThrees(helper.board, OtherPlayer(helper.player))
        /\ grid = helper.board

-----------------------------------------------------------------------------
(* Claims about the order of the catalog and the recorded winning line,     *)
(* under SpecRules                                                          *)

\* The coordinate c (1: x, 2: y, 3: z) is not the same all along the line.
Varies(line, c) == \E i, j \in 1 .. Len(line) : line[i][c] # line[j][c]

\* The family of a line by the coordinates that vary along it: 1 rows (x),
\* 2 columns (y), 3 pillars (z), 4 diagonals of the XY planes, 5 of the XZ
\* planes, 6 of the YZ planes, 7 space diagonals.
Family(line) ==
    LET x == Varies(line, 1)
        y == Varies(line, 2)
        z == Varies(line, 3)
    IN  IF x /\ y /\ z THEN 7
        ELSE IF y /\ z THEN 6
        ELSE IF x /\ z THEN 5
        ELSE IF x /\ y THEN 4
        ELSE IF z THEN 3
        ELSE IF y THEN 2
        ELSE 1

FamilySize(f) == Cardinality({ k \in 1 .. Len(winning_lines) : Family(winning_lines[k]) = f })

\* C24: the catalog lists the rows, then the columns, the pillars, the
\* diagonals of the XY planes, of the XZ planes, of the YZ planes, and the
\* space diagonals: 16, 16, 16, 8, 8, 8 and 4 lines.
C24_CatalogOrder ==
    /\ \A k \in 1 .. Len(winning_lines) - 1 :
          Family(winning_lines[k]) <= Family(winning_lines[k + 1])
    /\ <<FamilySize(1), FamilySize(2), FamilySize(3), FamilySize(4),
         FamilySize(5), FamilySize(6), FamilySize(7)>> = <<16, 16, 16, 8, 8, 8, 4>>

\* A scan of the catalog has found a row held, among its first 16 lines.
C24_Witness ==
    /\ op = "check_winner"
    /\ ret \in Players
    /\ Family(last_winning_line) = 1
    /\ \E k \in 1 .. 16 : last_winning_line = winning_lines[k]

\* C25: after a check_winner call last_winning_line is None when the call
\* returned None or 0, and otherwise a line of the catalog whose four cells
\* hold the winner returned; a line recorded by an earlier call does not
\* survive a call that finds no winner.
C25_WinningLineFollowsResult ==
    op = "check_winner" =>
        /\ ret \in {PyNone, 0} => last_winning_line = <<>>
        /\ ret \in Players =>
               /\ \E k \in 1 .. Len(winning_lines) : last_winning_line = winning_lines[k]
               /\ HeldBy(grid, last_winning_line, ret)

\* check_winner has found no winner while last_winning_line held the line
\* an earlier call had recorded.
C25_Witness ==
    /\ op = "check_winner"
    /\ ret \in {PyNone, 0}
    /\ recorded # <<>>
    /\ last_winning_line = <<>>

\* C26: the transposition table of MinimaxAI and AlphaBetaHeuristicAI is
\* empty when a top-level get_best_move call begins, whatever earlier calls
\* left in it, so every cache hit of the search reads an entry that the same
\* search, for the same mover, has written.
C26_CacheStartsEmpty ==
    [][(op' = "get_best_move" /\ ai.kind \in {"MinimaxAI", "AlphaBetaHeuristicAI"})
          => /\ call'.had = Cardinality(DOMAIN ai.transposition_table)
             /\ call'.start = 0
             /\ call'.stale = 0
             /\ call'.hits + call'.writes + call'.skipped <= ai'.nodes_evaluated]_vars

\* A second get_best_move call has found the entries of the first one in the
\* table, has begun its search without them and has stored entries of its
\* own.
C26_Witness ==
    /\ op = "get_best_move"
    /\ ai.kind \in {"MinimaxAI", "AlphaBetaHeuristicAI"}
    /\ call.had > 0
    /\ call.start = 0
    /\ call.writes > 0

\* C27: a coordinate that get_best_move returns, from any engine on a Board
\* or from AlphaBetaPruning after its translation, is in range and names, in
\* the (x, y, z) order of the caller's make_move, a cell that is EMPTY on the
\* board the call was given.
C27_ReturnedCellPlayable ==
    (op = "get_best_move" /\ ~ call.raised /\ call.move # <<>>)
        => /\ call.move \in DOMAIN call.before
           /\ call.before[call.move] = EMPTY_CELL

\* C28: the transposition table of AlphaBetaHeuristicAI is transparent: the
\* score a cache hit returns is the score the same _alphabeta call computes
\* without the table under its alpha/beta window, and get_best_move returns
\* the same move with the table and without it.
C28_CacheTransparent ==
    (op = "get_best_move" /\ helper.compared /\ ~ call.raised)
        => /\ call.opaque = 0
           /\ call.move = helper.plain

\* The number of cells of g that hold the mark of player
Marks(g, player) == Cardinality({ c \in Cells : g[c] = player })

\* C29: in every state of the presentation loop, whatever the interleaving
\* of cell clicks, the AI worker and New Game, the board holds as many human
\* marks as AI marks or one more; and a human mark is put on the board only
\* when game_over is false, ai_thinking is false and it is the human's turn.
C29_MovesAlternate ==
    [][/\ Marks(grid', PLAYER_HUMAN) - Marks(grid', PLAYER_AI) \in {0, 1}
       /\ (\E c \in Cells : grid[c] # PLAYER_HUMAN /\ grid'[c] = PLAYER_HUMAN)
             => /\ ~ gui.game_over
                /\ ~ gui.ai_thinking
                /\ gui.current_player = PLAYER_HUMAN]_vars

\* C30: after a human move that is accepted and does not end the game, when
\* "AI is thinking" is shown and a worker has been started, the game is
\* eventually declared over or the turn is back with the human, ai_thinking
\* false: the window does not stay in the "AI is thinking" state forever.
C30_AiTurnEnds ==
    (gui.ai_thinking /\ gui.current_player = PLAYER_AI /\ ~ gui.game_over)
        ~> (gui.game_over \/ (gui.current_player = PLAYER_HUMAN /\ ~ gui.ai_thinking))

====
